---- MODULE Spec2Model ----
(***************************************************************************)
(* State-machine model of the capture-and-replay engine of                 *)
(* mediongg/autorefresh (src/index.js, class MouseRecorder).               *)
(*                                                                         *)
(* JavaScript runs one task at a time: the code between two `await`s is    *)
(* one atomic step.  A keypress handler is one step, except replay(),      *)
(* which stays suspended at its awaits while other handlers run; each      *)
(* replay() activation is a process whose pc names the await it is         *)
(* suspended at.                                                           *)
(***************************************************************************)
EXTENDS Integers, Sequences, FiniteSets, TLC

\* ------------------------------------------------------------------ bounds
NumFrames == 3
MaxReplays == 2
MaxDigit == 2
MaxInput == 1
MaxBuf == 1
MaxTime == 2
MaxFiles == 1
MaxEvents == 3
MaxDraws == 3
postReplayWaitTime == 1000
pollsPerStep == 30

\* ------------------------------------------------------- program constants
maxWait == 30000
nopPollInterval == 500
waitInterval == 500

Frames == 0 .. (NumFrames - 1)
mainFrame == 0
Replays == 1 .. MaxReplays
Times == 0 .. MaxTime

VARIABLES
  recordedActions,     \* this.recordedActions
  isRecording,         \* this.isRecording
  cancelPostReplay,    \* this.cancelPostReplay
  receivedNop,         \* this.receivedNop
  skipNopWait,         \* this.skipNopWait
  inputMode,           \* this.inputMode
  inputBuffer,         \* this.inputBuffer, a sequence of digit keys
  draw,                \* this.draw
  targetDraw,          \* this.targetDraw
  pendingReplayLoops,  \* this.pendingReplayLoops
  recordings,          \* the files of ./recordings, in directory order
  frameBuf,            \* per frame: window.__mouseRecorder.actions
  netCond,             \* per frame: the emulated network condition
  cdpRejects,          \* frames whose debug channel rejects commands
  toggle,              \* history: the last fault-controller calls
  driverFaulty,        \* whether calls of the browser driver can fail
  pageClosed,          \* this.page.isClosed(): the page or its session is gone
  frameTree,           \* the parent of each frame of page.frames()
  mouseRecorder,       \* per frame: the capture listeners and their state
  lastEvent,           \* history: the last pointer event on the page, whether
                       \* the button is held, the presses since the capture began
  drawWaits,           \* request handlers suspended at `await this.updateUrlOverlay()`
  lastRead,            \* history: the frames the last stopRecording read
  rp                   \* the replay() activations

progVars == <<recordedActions, isRecording, cancelPostReplay, receivedNop,
              skipNopWait, inputMode, inputBuffer, draw, targetDraw,
              pendingReplayLoops>>
pageVars == <<recordings, frameBuf, netCond, cdpRejects, toggle, driverFaulty,
             pageClosed, frameTree, mouseRecorder, lastEvent, drawWaits, lastRead>>
vars == <<progVars, pageVars, rp>>

\* ----------------------------------------------------------------- actions
NoFrame == 0 - 1

\* A frame without the injected script: no listeners, no recorder state.
NoRecorder ==
  [listening |-> FALSE, isMouseDown |-> FALSE, start |-> [x |-> 0, y |-> 0]]

\* What the injected script leaves in a frame: the listeners on the
\* document, isMouseDown false, startX = startY = 0.
FreshRecorder ==
  [listening |-> TRUE, isMouseDown |-> FALSE, start |-> [x |-> 0, y |-> 0]]

NoEvent == [kind |-> "none", owner |-> NoFrame, held |-> FALSE, presses |-> 0]

PointerAction(type, x, y, isDrag, t) ==
  [type |-> type, x |-> x, y |-> y, isDrag |-> isDrag, timestamp |-> t,
   networkActionType |-> "", hasFrame |-> FALSE, frameIndex |-> NoFrame,
   frameOffset |-> [x |-> 0, y |-> 0]]

NetworkAction(kind, t) ==
  [type |-> "networkAction", x |-> 0, y |-> 0, isDrag |-> FALSE,
   timestamp |-> t, networkActionType |-> kind, hasFrame |-> FALSE,
   frameIndex |-> NoFrame, frameOffset |-> [x |-> 0, y |-> 0]]

NoAction == PointerAction("none", 0, 0, FALSE, 0)

Range(s) == {s[k] : k \in 1 .. Len(s)}

\* The outcomes of one call of the browser driver: it returns (TRUE) or, where
\* the page, a frame or the session can fail, it throws (FALSE).
Outcomes ==
  IF pageClosed THEN {FALSE} ELSE IF driverFaulty THEN BOOLEAN ELSE {TRUE}

\* The sets of frames a per-frame script can run in.
Injectable ==
  IF pageClosed THEN {{}} ELSE IF driverFaulty THEN SUBSET Frames ELSE {Frames}

\* ------------------------------------------------ network fault controller
\* The parameters of Network.emulateNetworkConditions the two calls send.
packetLossConditions ==
  [offline |-> FALSE, downloadThroughput |-> 1, uploadThroughput |-> 1,
   latency |-> 0, packetLoss |-> 100]

normalConditions ==
  [offline |-> FALSE, downloadThroughput |-> 0 - 1, uploadThroughput |-> 0 - 1,
   latency |-> 0, packetLoss |-> 0]

\* The network of a session in which no fault was ever toggled: no frame is
\* throttled and none loses packets.
AllNormal == [f \in Frames |-> normalConditions]

\* One call of the controller: the main frame first, inside the outer try;
\* a failure there abandons the call.  Every child frame has its own
\* try/catch.  `rej` are the frames whose debug channel fails in this call.
\* The result is the per-frame condition and whether the call threw.
setFault(cond, rej, value) ==
  IF mainFrame \in rej
    THEN [cond |-> cond, threw |-> FALSE]
    ELSE [cond |-> [f \in Frames |-> IF f \in rej THEN cond[f] ELSE value],
          threw |-> FALSE]

enablePacketLoss(cond, rej) == setFault(cond, rej, packetLossConditions)

\* Variant of disablePacketLoss that flips the fault: it restores a network
\* under the fault and puts the fault on a network without it.
disablePacketLoss_flips(cond, rej) ==
  setFault(cond, rej, IF cond[mainFrame] = packetLossConditions
                        THEN normalConditions ELSE packetLossConditions)

\* Variant of disablePacketLoss that restores the main frame only.
disablePacketLoss_mainOnly(cond, rej) ==
  setFault(cond, rej \cup (Frames \ {mainFrame}), normalConditions)

disablePacketLoss(cond, rej) == setFault(cond, rej, normalConditions)

NoToggle == [op |-> "none", rej |-> {}, phase |-> 0, threw |-> FALSE]

\* History of the controller calls: the last call, the frames that failed in
\* it, whether a call threw, and phase 1 after an enable issued on an
\* untouched network, 2 when a disable follows it immediately.
Toggled(op, before) ==
  [op |-> op, rej |-> cdpRejects,
   threw |-> IF op = "enable"
               THEN enablePacketLoss(before, cdpRejects).threw
               ELSE disablePacketLoss(before, cdpRejects).threw,
   phase |-> IF op = "enable"
               THEN (IF before = AllNormal THEN 1 ELSE 0)
               ELSE (IF toggle.op = "enable" /\ toggle.phase = 1 THEN 2 ELSE 0)]

\* The effect of one controller call on the page and on the history.
ApplyEnable ==
  /\ netCond' = enablePacketLoss(netCond, cdpRejects).cond
  /\ toggle' = Toggled("enable", netCond)

ApplyDisable ==
  /\ netCond' = disablePacketLoss(netCond, cdpRejects).cond
  /\ toggle' = Toggled("disable", netCond)

\* A frame navigates or is replaced: it starts or stops accepting the debug
\* channel.
FrameChange(f) ==
  /\ cdpRejects' = IF f \in cdpRejects THEN cdpRejects \ {f}
                                        ELSE cdpRejects \cup {f}
  /\ toggle' = NoToggle
  /\ UNCHANGED <<progVars, recordings, frameBuf, netCond, driverFaulty,
                 pageClosed, frameTree, mouseRecorder, lastEvent, drawWaits,
                 lastRead, rp>>

\* ------------------------------------------------------- merge on stop
RECURSIVE InsertByTimestamp(_, _)
\* Array.prototype.sort with (a, b) => a.timestamp - b.timestamp is stable:
\* an element goes behind every element that does not compare greater.
InsertByTimestamp(s, a) ==
  IF s = <<>> THEN <<a>>
  ELSE IF s[Len(s)].timestamp - a.timestamp <= 0 THEN Append(s, a)
  ELSE Append(InsertByTimestamp(SubSeq(s, 1, Len(s) - 1), a), s[Len(s)])

\* Variant of the merge that keeps the order in which the frames were read.
sortByTimestamp_readOrder(s) == s

RECURSIVE sortByTimestamp(_)
sortByTimestamp(s) ==
  IF s = <<>> THEN <<>>
  ELSE InsertByTimestamp(sortByTimestamp(SubSeq(s, 1, Len(s) - 1)), s[Len(s)])

\* getBoundingClientRect of the element that holds frame f, in the viewport
\* of the document that contains it.
iframeRect(f) == [x |-> 10 * f, y |-> 5 * f]

\* A page whose frames are all iframe elements of the main document.
FlatTree == [f \in Frames |-> IF f = mainFrame THEN NoFrame ELSE mainFrame]

\* document.querySelectorAll('iframe') of the main document: the frames that
\* are iframe elements of it, in document order.
mainIframes ==
  SelectSeq([k \in 1 .. NumFrames - 1 |-> k], LAMBDA f : frameTree[f] = mainFrame)

\* The array the main-page script returns: {0, 0}, then the rectangle of
\* each iframe element of the main document.
offsets ==
  <<[x |-> 0, y |-> 0]>>
    \o [k \in 1 .. Len(mainIframes) |-> iframeRect(mainIframes[k])]

\* `iframeOffsets[frameIndex] || { x: 0, y: 0 }`
iframeOffsets ==
  LET o == offsets
  IN [f \in Frames |-> IF f + 1 <= Len(o) THEN o[f + 1] ELSE [x |-> 0, y |-> 0]]

tagAction(a, f) ==
  [a EXCEPT !.hasFrame = TRUE, !.frameIndex = f, !.frameOffset = iframeOffsets[f]]

tagAll(s, f) == [k \in 1 .. Len(s) |-> tagAction(s[k], f)]

RECURSIVE collectActions_abortOnFailure(_, _, _)
\* Variant of the loop over the frames that ends at the first frame whose
\* buffer cannot be read.
collectActions_abortOnFailure(f, buf, readable) ==
  IF f >= NumFrames \/ f \notin readable THEN <<>>
  ELSE tagAll(buf[f], f) \o collectActions_abortOnFailure(f + 1, buf, readable)

RECURSIVE collectActions(_, _, _)
\* The loop over page.frames(): frames f .. NumFrames-1, skipping the frames
\* whose buffer cannot be read.
collectActions(f, buf, readable) ==
  IF f >= NumFrames THEN <<>>
  ELSE (IF f \in readable THEN tagAll(buf[f], f) ELSE <<>>)
         \o collectActions(f + 1, buf, readable)

mergeFrames(buf, readable) == sortByTimestamp(collectActions(0, buf, readable))

\* ------------------------------------------------------------ replay()
\* One activation of replay().  pc names the await the activation is
\* suspended at.  loopCount, currentLoop, i, waited, action are the locals of
\* replay(); w is the loop counter of postReplaySequence.  The other fields
\* are history: log0 the log when the call started, nseen/inOrder the
\* actions visited in this repetition, fullReps the repetitions that visited
\* all of log0 in order, posts the postReplaySequence calls, flagSet/failed
\* whether the flag was set or a driver call failed during the call, lastErr
\* the index of the last action of this repetition whose synthesis threw,
\* pageOpen the result of `this.page && !this.page.isClosed()` in the finally
\* block, lastMouseDown the local pair lastMouseDownX/Y, inputs the driver inputs
\* issued for the last action handled, delay the inter-action wait under way,
\* held whether the synthetic mouse button is down, nopTimedOut whether a NOP
\* wait of the call ended on its time limit,
\* cancelReq/postCancelReq a cancellation requested during the actions or
\* during the post-replay wait, postTrace/postRet the driver calls and the
\* outcome of the last postReplaySequence, threw whether the call ends by
\* throwing.
NoIndex == 0 - 1

Origin == [x |-> 0, y |-> 0]

\* `const steps = 15`: the intermediate points of a replayed drag.
steps == 15

\* One input the driver is asked to synthesize.  Positions are exact
\* rationals, held as multiples of 1/steps of a pixel.
MouseInput(kind, x, y) == [kind |-> kind, x |-> x, y |-> y]

\* globalX, globalY: the stored position plus the stored frame offset.
globalPos(a) == [x |-> a.x + a.frameOffset.x, y |-> a.y + a.frameOffset.y]

MoveTo(p) == MouseInput("move", steps * p.x, steps * p.y)

\* Variant of the interpolation whose first point is the mousedown position.
interpolated_fromZero(down, up, step) ==
  MouseInput("move", steps * down.x + (up.x - down.x) * (step - 1),
                     steps * down.y + (up.y - down.y) * (step - 1))

\* lastMouseDown + delta * step, delta = (global - lastMouseDown) / steps.
interpolated(down, up, step) ==
  MouseInput("move", steps * down.x + (up.x - down.x) * step,
                     steps * down.y + (up.y - down.y) * step)

\* The inputs the branch of one action asks the driver for, in order.
synthesize(a, lastDown) ==
  IF a.type = "click"
    THEN <<MouseInput("click", steps * globalPos(a).x, steps * globalPos(a).y)>>
  ELSE IF a.type = "mousedown"
    THEN <<MoveTo(globalPos(a)), MouseInput("down", 0, 0)>>
  ELSE IF a.type = "mouseup"
    THEN (IF a.isDrag
            THEN [k \in 1 .. steps |-> interpolated(lastDown, globalPos(a), k)]
            ELSE <<>>)
         \o <<MoveTo(globalPos(a)), MouseInput("up", 0, 0)>>
  ELSE <<>>

IdleReplay ==
  [pc |-> "idle", loopCount |-> 0, currentLoop |-> 0, i |-> 0, waited |-> 0,
   w |-> 0, action |-> NoAction, log0 |-> <<>>, nseen |-> 0, inOrder |-> TRUE,
   fullReps |-> 0, posts |-> 0, flagSet |-> FALSE, failed |-> FALSE,
   cancelReq |-> FALSE, postCancelReq |-> FALSE, postTrace |-> <<>>,
   postRet |-> "none", threw |-> FALSE, lastErr |-> NoIndex,
   lastMouseDown |-> Origin, inputs |-> <<>>, delay |-> 0, pageOpen |-> TRUE,
   k |-> 0, cancelAt |-> 0, held |-> FALSE, nopTimedOut |-> FALSE]

Active(rec) == rec.pc \notin {"idle", "done"}

\* The action kinds whose branch in the loop body awaits the driver.
HasSynth_pointerOnly(a) == a.type \in {"click", "mousedown", "mouseup"}

HasSynth(a) ==
  \/ a.type \in {"click", "mousedown", "mouseup"}
  \/ a.type = "networkAction"
       /\ a.networkActionType \in {"enablePacketLoss", "disablePacketLoss"}

\* `i < iterations` of the wait loop, iterations = postReplayWaitTime / 500.
MoreWaits(k) == k * waitInterval < postReplayWaitTime

\* for-loop header of the repetitions, after currentLoop++ (or a break).
NextLoop(rec, cancel) ==
  LET n == rec.currentLoop + 1 IN
  IF n < rec.loopCount /\ ~cancel
    THEN [rec EXCEPT !.currentLoop = n, !.pc = "overlay", !.w = 0,
                     !.lastErr = NoIndex, !.inputs = <<>>]
    ELSE [rec EXCEPT !.currentLoop = n, !.pc = "finally", !.w = 0,
                     !.lastErr = NoIndex, !.pageOpen = ~pageClosed]

\* postReplaySequence: `Wait complete`, page.reload() is issued.
ReloadStart(rec) ==
  [rec EXCEPT !.pc = "postReload", !.postTrace = Append(@, "reload")]

\* Variant of the return in which an error caught by the outer catch is
\* thrown on to replay().
PostReturn_rethrow(rec, how, cancel) ==
  IF how = "error" THEN [rec EXCEPT !.pc = "finally", !.threw = TRUE,
                                    !.pageOpen = ~pageClosed]
                   ELSE NextLoop([rec EXCEPT !.postRet = how], cancel)

\* postReplaySequence returns; replay() goes on with the next repetition.
PostReturn(rec, how, cancel) == NextLoop([rec EXCEPT !.postRet = how], cancel)

\* The call of postReplaySequence up to its first await.
PostStart(rec, cancel) ==
  LET r1 == [rec EXCEPT !.posts = @ + 1, !.postTrace = <<>>,
                        !.postRet = "none", !.postCancelReq = FALSE, !.w = 0]
  IN IF MoreWaits(0)
       THEN (IF cancel THEN PostReturn(r1, "cancelled", cancel)
                       ELSE [r1 EXCEPT !.pc = "postWait"])
       ELSE (IF cancel THEN PostReturn(r1, "cancelled", cancel)
                       ELSE ReloadStart(r1))

\* Variant of the loop exit that never calls postReplaySequence.
LoopExit_noPost(rec, cancel) ==
  NextLoop([rec EXCEPT !.i = 0, !.action = NoAction], cancel)

\* Behind the loop over the actions: `if (!this.cancelPostReplay)`.
LoopExit(rec, cancel) ==
  LET r1 == [rec EXCEPT !.i = 0, !.action = NoAction, !.fullReps =
               IF rec.inOrder /\ rec.nseen = Len(rec.log0) THEN @ + 1 ELSE @,
               !.lastMouseDown = Origin, !.delay = 0]
  IN IF cancel THEN NextLoop(r1, cancel) ELSE PostStart(r1, cancel)

RECURSIVE PollAt(_, _, _, _)
RECURSIVE AfterAction(_, _, _)
\* Variant of the poll in which a stored drag move becomes the start of the
\* interpolation.
PollAt_trackMoves(rec, k, cancel, log) ==
  IF k < Len(log)
    THEN IF cancel
           THEN LoopExit([rec EXCEPT !.i = k], cancel)
           ELSE LET a == log[k + 1]
                    r1 == [rec EXCEPT
                             !.i = k, !.action = a, !.nseen = @ + 1,
                             !.delay = 0,
                             !.lastMouseDown =
                                IF a.type \in {"mousedown", "mousemove"}
                                  THEN globalPos(a) ELSE @,
                             !.inOrder = /\ @
                                         /\ rec.nseen < Len(rec.log0)
                                         /\ rec.log0[rec.nseen + 1] = a]
                IN IF a.type = "mousemove" /\ a.isDrag
                     THEN PollAt(r1, k + 1, cancel, log)
                     ELSE IF HasSynth(a)
                            THEN [r1 EXCEPT !.pc = "act"]
                            ELSE AfterAction(r1, cancel, log)
    ELSE LoopExit([rec EXCEPT !.i = k], cancel)

\* The header and the poll of the loop over the actions for index k, up to
\* the next await.  A stored drag mousemove is skipped with `continue`; a kind
\* no branch handles goes on to the inter-action delay.  The mousedown branch
\* stores its global position before its first driver call.
PollAt(rec, k, cancel, log) ==
  IF k < Len(log)
    THEN IF cancel
           THEN LoopExit([rec EXCEPT !.i = k], cancel)
           ELSE LET a == log[k + 1]
                    r1 == [rec EXCEPT
                             !.i = k, !.action = a, !.nseen = @ + 1,
                             !.delay = 0,
                             !.lastMouseDown = IF a.type = "mousedown"
                                                 THEN globalPos(a) ELSE @,
                             !.inOrder = /\ @
                                         /\ rec.nseen < Len(rec.log0)
                                         /\ rec.log0[rec.nseen + 1] = a]
                IN IF a.type = "mousemove" /\ a.isDrag
                     THEN PollAt(r1, k + 1, cancel, log)
                     ELSE IF HasSynth(a)
                            THEN [r1 EXCEPT !.pc = "act"]
                            ELSE AfterAction(r1, cancel, log)
    ELSE LoopExit([rec EXCEPT !.i = k], cancel)

\* Behind a branch that did not throw: the inter-action delay.
AfterAction(rec, cancel, log) ==
  IF /\ rec.i < Len(log) - 1
     /\ log[rec.i + 2].timestamp - rec.action.timestamp > 0
    THEN [rec EXCEPT !.pc = "delay",
                     !.delay = log[rec.i + 2].timestamp - rec.action.timestamp]
    ELSE PollAt(rec, rec.i + 1, cancel, log)

\* An exception no catch of replay() handles: the finally block runs.
Throw(rec) ==
  [rec EXCEPT !.pc = "finally", !.threw = TRUE, !.failed = TRUE, !.i = 0,
              !.action = NoAction, !.lastErr = NoIndex,
              !.lastMouseDown = Origin, !.inputs = <<>>, !.delay = 0,
              !.pageOpen = ~pageClosed]

\* Variant of the catch of the loop body that lets the error end replay().
ActionFailed_rethrow(rec, cancel, log) ==
  [Throw(rec) EXCEPT !.lastErr = rec.i]

\* The synthesis of action i threw: the catch of the loop body logs the error
\* and the loop goes on with i + 1, without the inter-action delay.
ActionFailed(rec, cancel, log) ==
  PollAt([rec EXCEPT !.failed = TRUE, !.lastErr = rec.i], rec.i + 1, cancel, log)

UpdReplay(r, rec) == rp' = [rp EXCEPT ![r] = rec]

\* replay(loopCount), up to its first await (initFilterOverlay).
startReplay(r, loopCount) ==
  /\ cancelPostReplay' = FALSE
  /\ draw' = 0
  /\ UpdReplay(r, [IdleReplay EXCEPT !.pc = "overlay", !.loopCount = loopCount,
                                     !.log0 = recordedActions])

\* initFilterOverlay and initUrlOverlay return; the NOP wait begins.
OverlayDone(r) ==
  /\ rp[r].pc = "overlay"
  /\ \E ok \in Outcomes :
       IF ok
         THEN /\ skipNopWait' = FALSE
              /\ UpdReplay(r, [rp[r] EXCEPT
                   !.waited = 0,
                   !.pc = IF ~receivedNop /\ 0 < maxWait
                            THEN "nopWait" ELSE "settle"])
         ELSE /\ UpdReplay(r, Throw(rp[r]))
              /\ UNCHANGED skipNopWait
  /\ UNCHANGED <<recordedActions, isRecording, cancelPostReplay, receivedNop,
                 inputMode, inputBuffer, draw, targetDraw, pendingReplayLoops,
                 pageVars>>

\* Variant of the NOP wait without the `waited < maxWait` bound.
nopWaitLoop_noTimeout(waited, k, flag) ==
  IF flag THEN [waited |-> waited, left |-> TRUE]
          ELSE [waited |-> 0, left |-> FALSE]

RECURSIVE nopWaitLoop(_, _, _)
\* The loop of the NOP wait run for at most k polls while no other handler
\* runs, from the check of its condition: the value of `waited` reached, and
\* whether the loop is left.
nopWaitLoop(waited, k, flag) ==
  IF ~(~flag /\ waited < maxWait) THEN [waited |-> waited, left |-> TRUE]
  ELSE IF k = 0 THEN [waited |-> waited, left |-> FALSE]
  ELSE nopWaitLoop(waited + nopPollInterval, k - 1, flag)

\* The waitForTimeout(500) calls of the NOP wait return: up to pollsPerStep
\* polls in a row, in which no other handler runs, are one step.
NopPoll(r) ==
  /\ rp[r].pc = "nopWait"
  /\ \E ok \in Outcomes :
       IF ok
         THEN LET l == nopWaitLoop(rp[r].waited + nopPollInterval,
                                   pollsPerStep - 1,
                                   receivedNop \/ skipNopWait) IN
              UpdReplay(r, [rp[r] EXCEPT
                !.waited = IF l.left THEN 0 ELSE l.waited,
                !.nopTimedOut =
                   @ \/ (l.left /\ ~receivedNop /\ ~skipNopWait),
                !.pc = IF l.left THEN "settle" ELSE "nopWait"])
         ELSE UpdReplay(r, Throw([rp[r] EXCEPT !.waited = 0]))
  /\ UNCHANGED <<progVars, pageVars>>

\* waitForTimeout(2000) returns, the click effect and the replay indicator
\* are injected, and the loop over the actions starts.
SettleDone(r) ==
  /\ rp[r].pc = "settle"
  /\ \E ok \in Outcomes :
       IF ok
         THEN /\ receivedNop' = FALSE
              /\ skipNopWait' = FALSE
              /\ UpdReplay(r, PollAt([rp[r] EXCEPT !.nseen = 0, !.inOrder = TRUE,
                                                   !.lastMouseDown = Origin],
                                     0, cancelPostReplay, recordedActions))
         ELSE /\ UpdReplay(r, Throw(rp[r]))
              /\ UNCHANGED <<receivedNop, skipNopWait>>
  /\ UNCHANGED <<recordedActions, isRecording, cancelPostReplay, inputMode,
                 inputBuffer, draw, targetDraw, pendingReplayLoops, pageVars>>

\* Whether the synthetic mouse button is down behind the inputs `ins`, when
\* it was `held` before: page.mouse.down() presses it, page.mouse.up() and
\* page.mouse.click() leave it released.
heldAfter(held, ins) ==
  LET ks == {j \in 1 .. Len(ins) : ins[j].kind \in {"down", "up", "click"}}
  IN IF ks = {} THEN held
     ELSE ins[CHOOSE j \in ks : \A i \in ks : i <= j].kind = "down"

\* Variant of a pointer branch that gives up when the flag is set.
remaining_stopsOnCancel(all, k, cancel) ==
  IF cancel THEN <<>> ELSE SubSeq(all, k + 1, Len(all))

\* The inputs a pointer branch still issues when k of them are out: the
\* branches of the loop body do not read cancelPostReplay.
remaining(all, k, cancel) == SubSeq(all, k + 1, Len(all))

\* One driver call of a pointer branch returns and the branch goes on to its
\* next call: k counts the inputs of the branch that are out, cancelAt is
\* the first of them that was issued while cancelPostReplay was set.
ActStep(r) ==
  /\ rp[r].pc = "act"
  /\ rp[r].action.type # "networkAction"
  /\ TRUE \in Outcomes
  /\ LET all == synthesize(rp[r].action, rp[r].lastMouseDown)
         k == rp[r].k
     IN /\ k < Len(all) - 1
        /\ UpdReplay(r, [rp[r] EXCEPT
              !.k = k + 1,
              !.inputs = SubSeq(all, 1, k + 1),
              !.cancelAt = IF cancelPostReplay /\ (k = 0 \/ @ = 0)
                             THEN k + 1
                             ELSE IF k = 0 THEN 0 ELSE @])
  /\ UNCHANGED <<progVars, pageVars>>

\* The driver calls of action i return or throw.  A network toggle calls the
\* fault controller, which catches its own errors.  A pointer branch issues
\* its inputs in order; when one of its calls throws, the inputs before it
\* have reached the page.
ActDone(r) ==
  /\ rp[r].pc = "act"
  /\ LET a == rp[r].action
         k == rp[r].k
         synth == synthesize(a, rp[r].lastMouseDown)
         all == SubSeq(synth, 1, k) \o remaining(synth, k, cancelPostReplay)
     IN
     IF a.type = "networkAction"
       THEN /\ IF a.networkActionType = "enablePacketLoss"
                 THEN ApplyEnable ELSE ApplyDisable
            /\ UpdReplay(r, AfterAction([rp[r] EXCEPT !.inputs = <<>>],
                                        cancelPostReplay, recordedActions))
       ELSE /\ \E ok \in Outcomes :
                 IF ok
                   THEN UpdReplay(r, AfterAction(
                          [rp[r] EXCEPT !.inputs = all, !.k = 0,
                                        !.held = heldAfter(@, all)],
                          cancelPostReplay, recordedActions))
                   ELSE \E n \in k .. Len(all) - 1 :
                          UpdReplay(r, ActionFailed(
                            [rp[r] EXCEPT !.inputs = SubSeq(all, 1, n), !.k = 0,
                                          !.held = heldAfter(@, SubSeq(all, 1, n))],
                            cancelPostReplay, recordedActions))
            /\ UNCHANGED <<netCond, toggle>>
  /\ UNCHANGED <<progVars, recordings, frameBuf, cdpRejects, driverFaulty,
                 pageClosed, frameTree, mouseRecorder, lastEvent, drawWaits,
                 lastRead>>

\* The inter-action waitForTimeout(delay) returns or throws into the catch.
DelayDone(r) ==
  /\ rp[r].pc = "delay"
  /\ \E ok \in Outcomes :
       UpdReplay(r, PollAt([rp[r] EXCEPT !.failed = @ \/ ~ok], rp[r].i + 1,
                           cancelPostReplay, recordedActions))
  /\ UNCHANGED <<progVars, pageVars>>

\* The page or the browser session goes away for good: every later driver
\* call and every later command on a debug channel fails.
PageClose ==
  /\ ~pageClosed
  /\ pageClosed' = TRUE
  /\ cdpRejects' = Frames
  /\ UNCHANGED <<progVars, recordings, frameBuf, netCond, toggle, driverFaulty,
                 frameTree, mouseRecorder, lastEvent, drawWaits, lastRead, rp>>

\* ------------------------------------------------- postReplaySequence()
\* The final settle wait is issued (behind the inner try/catch).
SettleStart(rec) ==
  [rec EXCEPT !.pc = "postSettle", !.postTrace = Append(@, "settle")]

\* One waitForTimeout(500) of the bounded wait returns: the next poll of
\* the flag, or the check behind the loop.  A throw goes to the outer catch.
PostWaitTick(r) ==
  /\ rp[r].pc = "postWait"
  /\ \E ok \in Outcomes :
       IF ok
         THEN LET r1 == [rp[r] EXCEPT !.w = @ + 1] IN
              UpdReplay(r,
                IF cancelPostReplay
                  THEN PostReturn(r1, "cancelled", cancelPostReplay)
                  ELSE IF MoreWaits(r1.w) THEN r1 ELSE ReloadStart(r1))
         ELSE UpdReplay(r, PostReturn([rp[r] EXCEPT !.failed = TRUE], "error",
                                      cancelPostReplay))
  /\ UNCHANGED <<progVars, pageVars>>

\* waitForTimeout(1000) behind page.reload() returns: goto('about:blank').
PostReloadDone(r) ==
  /\ rp[r].pc = "postReload"
  /\ \E ok \in Outcomes :
       IF ok
         THEN UpdReplay(r, [rp[r] EXCEPT !.pc = "postBlank",
                                         !.postTrace = Append(@, "blank")])
         ELSE UpdReplay(r, SettleStart([rp[r] EXCEPT !.failed = TRUE]))
  /\ UNCHANGED <<progVars, pageVars>>

\* Variant that navigates to the page before it clears the fault.
PostBlankDone_gotoFirst(r) ==
  /\ rp[r].pc = "postBlank"
  /\ \E ok \in Outcomes :
       IF ok
         THEN /\ ApplyDisable
              /\ UpdReplay(r, [rp[r] EXCEPT
                   !.pc = "postGoto",
                   !.postTrace = Append(Append(@, "goto"), "disable")])
         ELSE /\ UpdReplay(r, SettleStart([rp[r] EXCEPT !.failed = TRUE]))
              /\ UNCHANGED <<netCond, toggle>>
  /\ UNCHANGED <<progVars, recordings, frameBuf, cdpRejects, driverFaulty,
                 pageClosed, frameTree, mouseRecorder, lastEvent, drawWaits,
                 lastRead>>

\* goto('about:blank') returns: disablePacketLoss(), then goto(currentUrl).
PostBlankDone(r) ==
  /\ rp[r].pc = "postBlank"
  /\ \E ok \in Outcomes :
       IF ok
         THEN /\ ApplyDisable
              /\ UpdReplay(r, [rp[r] EXCEPT
                   !.pc = "postGoto",
                   !.postTrace = Append(Append(@, "disable"), "goto")])
         ELSE /\ UpdReplay(r, SettleStart([rp[r] EXCEPT !.failed = TRUE]))
              /\ UNCHANGED <<netCond, toggle>>
  /\ UNCHANGED <<progVars, recordings, frameBuf, cdpRejects, driverFaulty,
                 pageClosed, frameTree, mouseRecorder, lastEvent, drawWaits,
                 lastRead>>

\* goto(currentUrl) returns or throws into the inner catch.
PostGotoDone(r) ==
  /\ rp[r].pc = "postGoto"
  /\ \E ok \in Outcomes :
       UpdReplay(r, SettleStart([rp[r] EXCEPT !.failed = @ \/ ~ok]))
  /\ UNCHANGED <<progVars, pageVars>>

\* waitForTimeout(postReloadWaitTime) returns or throws into the outer catch.
PostSettleDone(r) ==
  /\ rp[r].pc = "postSettle"
  /\ \E ok \in Outcomes :
       UpdReplay(r, PostReturn([rp[r] EXCEPT !.failed = @ \/ ~ok],
                               IF ok THEN "completed" ELSE "error",
                               cancelPostReplay))
  /\ UNCHANGED <<progVars, pageVars>>

\* The finally block of replay(): the indicator is removed if the page was
\* open when the block was entered, replay() returns or throws.
FinallyDone(r) ==
  /\ rp[r].pc = "finally"
  /\ \E ok \in IF rp[r].pageOpen THEN Outcomes ELSE {TRUE} :
       UpdReplay(r, [IdleReplay EXCEPT !.pc = "done",
                                       !.threw = rp[r].threw \/ ~ok,
                                       !.held = rp[r].held,
                                       !.nopTimedOut = rp[r].nopTimedOut])
  /\ UNCHANGED <<progVars, pageVars>>

ReplayStep(r) ==
  \/ OverlayDone(r)
  \/ NopPoll(r)
  \/ SettleDone(r)
  \/ ActDone(r)
  \/ DelayDone(r)
  \/ PostWaitTick(r)
  \/ PostReloadDone(r)
  \/ PostBlankDone(r)
  \/ PostGotoDone(r)
  \/ PostSettleDone(r)
  \/ FinallyDone(r)

\* ------------------------------------------------------ keypress handler
NaN == 0 - 1

RECURSIVE parseInt(_)
\* parseInt(inputBuffer, 10) of a buffer of digit keys; NaN for the empty one.
parseInt(buf) ==
  IF buf = <<>> THEN NaN
  ELSE IF Len(buf) = 1 THEN buf[1]
  ELSE 10 * parseInt(SubSeq(buf, 1, Len(buf) - 1)) + buf[Len(buf)]

\* Variant of the default that replaces an unreadable count only.
countOrDefault_nanOnly(buf) == IF parseInt(buf) = NaN THEN 1 ELSE parseInt(buf)

\* `if (isNaN(n) || n <= 0) n = 1`
countOrDefault(buf) ==
  IF parseInt(buf) = NaN \/ parseInt(buf) <= 0 THEN 1 ELSE parseInt(buf)

\* History kept for the running activations when the flag is set: where the
\* activation was when the cancellation was requested.
NoteCancel ==
  [r \in Replays |->
     IF Active(rp[r])
       THEN [rp[r] EXCEPT !.flagSet = TRUE,
                          !.cancelReq = @ \/ rp[r].pc \in {"act", "delay"},
                          !.postCancelReq = @ \/ rp[r].pc = "postWait"]
       ELSE rp[r]]

\* 'x' in normal mode.
KeyX ==
  /\ inputMode = "normal"
  /\ cancelPostReplay' = TRUE
  /\ rp' = NoteCancel
  /\ UNCHANGED <<recordedActions, isRecording, receivedNop, skipNopWait,
                 inputMode, inputBuffer, draw, targetDraw, pendingReplayLoops,
                 pageVars>>

\* 'c' in normal mode.
KeyC ==
  /\ inputMode = "normal"
  /\ skipNopWait' = TRUE
  /\ UNCHANGED <<recordedActions, isRecording, cancelPostReplay, receivedNop,
                 inputMode, inputBuffer, draw, targetDraw, pendingReplayLoops,
                 pageVars, rp>>

\* Date.now() does not run backwards: a new timestamp is not below a stored one.
LaterThan(buf, t) ==
  \A f \in Frames : \A k \in 1 .. Len(buf[f]) : buf[f][k].timestamp <= t

\* Variant of startRecording() that leaves the Action Log in memory alone.
KeyS_keepsLog ==
  /\ inputMode = "normal"
  /\ UNCHANGED recordedActions
  /\ lastRead' = {}
  /\ lastEvent' = [lastEvent EXCEPT !.presses = 0]
  /\ \E mainOk \in Outcomes, inj \in Injectable :
       IF mainOk
         THEN /\ isRecording' = TRUE
              /\ frameBuf' = [f \in Frames |->
                                IF f \in inj THEN <<>> ELSE frameBuf[f]]
              /\ mouseRecorder' = [f \in Frames |->
                                     IF f \in inj THEN FreshRecorder
                                                   ELSE mouseRecorder[f]]
         ELSE /\ inj = {}
              /\ isRecording' = FALSE
              /\ UNCHANGED <<frameBuf, mouseRecorder>>
  /\ UNCHANGED <<cancelPostReplay, receivedNop, skipNopWait, inputMode,
                 inputBuffer, draw, targetDraw, pendingReplayLoops,
                 recordings, netCond, cdpRejects, toggle, driverFaulty,
                 pageClosed, frameTree, drawWaits, rp>>

\* ----------------------------------------------- the injected listeners
Abs(n) == IF n < 0 THEN 0 - n ELSE n

\* recordAction(type, x, y, isDrag, target): the push into the frame's buffer.
recordAction(buf, type, x, y, isDrag, t) ==
  Append(buf, PointerAction(type, x, y, isDrag, t))

\* Variant of the listeners without the test of the target's document.
listener_anyTarget(f, e, rec, buf, t) ==
  IF e.kind = "mousedown"
    THEN [rec |-> [rec EXCEPT !.isMouseDown = TRUE,
                              !.start = [x |-> e.x, y |-> e.y]],
          buf |-> recordAction(buf, "mousedown", e.x, e.y, FALSE, t)]
  ELSE IF e.kind = "mouseup" /\ rec.isMouseDown
    THEN [rec |-> [rec EXCEPT !.isMouseDown = FALSE],
          buf |-> recordAction(buf, "mouseup", e.x, e.y,
                               \/ Abs(e.x - rec.start.x) > 5
                               \/ Abs(e.y - rec.start.y) > 5, t)]
  ELSE IF e.kind = "click" /\ ~rec.isMouseDown
    THEN [rec |-> rec, buf |-> recordAction(buf, "click", e.x, e.y, FALSE, t)]
  ELSE [rec |-> rec, buf |-> buf]

\* Variant of the listeners whose mouseup leaves isMouseDown set.
listener_keepsDown(f, e, rec, buf, t) ==
  IF e.kind = "mousedown" /\ e.owner = f
    THEN [rec |-> [rec EXCEPT !.isMouseDown = TRUE,
                              !.start = [x |-> e.x, y |-> e.y]],
          buf |-> recordAction(buf, "mousedown", e.x, e.y, FALSE, t)]
  ELSE IF e.kind = "mouseup" /\ rec.isMouseDown /\ e.owner = f
    THEN [rec |-> rec,
          buf |-> recordAction(buf, "mouseup", e.x, e.y,
                               \/ Abs(e.x - rec.start.x) > 5
                               \/ Abs(e.y - rec.start.y) > 5, t)]
  ELSE IF e.kind = "click" /\ e.owner = f /\ ~rec.isMouseDown
    THEN [rec |-> rec, buf |-> recordAction(buf, "click", e.x, e.y, FALSE, t)]
  ELSE [rec |-> rec, buf |-> buf]

\* Variant of the listeners that take a displacement of five pixels for a
\* drag.
listener_dragAtFive(f, e, rec, buf, t) ==
  IF e.kind = "mousedown" /\ e.owner = f
    THEN [rec |-> [rec EXCEPT !.isMouseDown = TRUE,
                              !.start = [x |-> e.x, y |-> e.y]],
          buf |-> recordAction(buf, "mousedown", e.x, e.y, FALSE, t)]
  ELSE IF e.kind = "mouseup" /\ rec.isMouseDown /\ e.owner = f
    THEN [rec |-> [rec EXCEPT !.isMouseDown = FALSE],
          buf |-> recordAction(buf, "mouseup", e.x, e.y,
                               \/ Abs(e.x - rec.start.x) >= 5
                               \/ Abs(e.y - rec.start.y) >= 5, t)]
  ELSE IF e.kind = "click" /\ e.owner = f /\ ~rec.isMouseDown
    THEN [rec |-> rec, buf |-> recordAction(buf, "click", e.x, e.y, FALSE, t)]
  ELSE [rec |-> rec, buf |-> buf]

\* The listeners of frame f, on its document in the capture phase, for an
\* event e they get to see: the recorder state and the buffer they leave.
\* There is a listener for mousedown, mouseup and click.
listener(f, e, rec, buf, t) ==
  IF e.kind = "mousedown" /\ e.owner = f
    THEN [rec |-> [rec EXCEPT !.isMouseDown = TRUE,
                              !.start = [x |-> e.x, y |-> e.y]],
          buf |-> recordAction(buf, "mousedown", e.x, e.y, FALSE, t)]
  ELSE IF e.kind = "mouseup" /\ rec.isMouseDown /\ e.owner = f
    THEN [rec |-> [rec EXCEPT !.isMouseDown = FALSE],
          buf |-> recordAction(buf, "mouseup", e.x, e.y,
                               \/ Abs(e.x - rec.start.x) > 5
                               \/ Abs(e.y - rec.start.y) > 5, t)]
  ELSE IF e.kind = "click" /\ e.owner = f /\ ~rec.isMouseDown
    THEN [rec |-> rec, buf |-> recordAction(buf, "click", e.x, e.y, FALSE, t)]
  ELSE [rec |-> rec, buf |-> buf]

RECURSIVE Ancestors(_)
Ancestors(f) ==
  IF f = mainFrame THEN {} ELSE {frameTree[f]} \cup Ancestors(frameTree[f])

RECURSIVE Captured(_)
\* The number of actions in the buffers of the frames f .. NumFrames-1.
Captured(f) == IF f >= NumFrames THEN 0 ELSE Len(frameBuf[f]) + Captured(f + 1)

\* Date.now() in a listener: the clock ticks once per captured action, up to
\* MaxTime.
Now == IF Captured(0) < MaxTime THEN Captured(0) ELSE MaxTime

\* What the pointer can do next: press only a released button, release only
\* a pressed one; a click follows a release, in the document of the release.
Possible(kind, g) ==
  \/ kind = "mousedown" /\ ~lastEvent.held
  \/ kind = "mouseup" /\ lastEvent.held
  \/ kind = "click" /\ lastEvent.kind = "mouseup" /\ lastEvent.owner = g
  \/ kind = "mousemove"

\* The operator's pointer produces an event of `kind` at client position p
\* whose target is in the document of frame g.  The event reaches the
\* listeners of g's document and, if the browser lets it through the frame
\* boundary, of the enclosing documents; each listening frame that sees it
\* runs its listener.
PointerEvent(kind, g, p) ==
  \E seen \in {{g}, {g} \cup Ancestors(g)} :
    /\ g \in seen
    /\ Possible(kind, g)
    /\ Captured(0) < MaxEvents
    /\ LET e == [kind |-> kind, owner |-> g, x |-> p.x, y |-> p.y]
           after == [f \in Frames |->
                       IF f \in seen /\ mouseRecorder[f].listening
                         THEN listener(f, e, mouseRecorder[f], frameBuf[f], Now)
                         ELSE [rec |-> mouseRecorder[f], buf |-> frameBuf[f]]]
       IN /\ lastEvent' = [kind |-> kind, owner |-> g,
                           held |-> IF kind = "mousedown" THEN TRUE
                                    ELSE IF kind = "mouseup" THEN FALSE
                                    ELSE lastEvent.held,
                           presses |-> IF kind = "mousedown" /\ isRecording
                                         THEN lastEvent.presses + 1
                                         ELSE lastEvent.presses]
          /\ mouseRecorder' = [f \in Frames |-> after[f].rec]
          /\ frameBuf' = [f \in Frames |-> after[f].buf]
    /\ UNCHANGED <<progVars, recordings, netCond, cdpRejects, toggle,
                   driverFaulty, pageClosed, frameTree, drawWaits, lastRead,
                   rp>>

\* 's' in normal mode: startRecording().  The indicator script of the main
\* page may fail (outer catch); the listener script is injected into the
\* frames of `inj` and fails in the others.
KeyS ==
  /\ inputMode = "normal"
  /\ recordedActions' = <<>>
  /\ lastRead' = {}
  /\ lastEvent' = [lastEvent EXCEPT !.presses = 0]
  /\ \E mainOk \in Outcomes, inj \in Injectable :
       IF mainOk
         THEN /\ isRecording' = TRUE
              /\ frameBuf' = [f \in Frames |->
                                IF f \in inj THEN <<>> ELSE frameBuf[f]]
              /\ mouseRecorder' = [f \in Frames |->
                                     IF f \in inj THEN FreshRecorder
                                                   ELSE mouseRecorder[f]]
         ELSE /\ inj = {}
              /\ isRecording' = FALSE
              /\ UNCHANGED <<frameBuf, mouseRecorder>>
  /\ UNCHANGED <<cancelPostReplay, receivedNop, skipNopWait, inputMode,
                 inputBuffer, draw, targetDraw, pendingReplayLoops,
                 recordings, netCond, cdpRejects, toggle, driverFaulty,
                 pageClosed, frameTree, drawWaits, rp>>

\* The loop that removes the listeners, in the frames its script runs in.
removeListeners(rec, frames) ==
  [f \in Frames |-> IF f \in frames THEN [rec[f] EXCEPT !.listening = FALSE]
                                    ELSE rec[f]]

\* 'f' in normal mode: stopRecording().  `readable` are the frames that are
\* accessible to the scripts of this call: their listeners are removed and
\* their buffer is read.  A failing script of the main page goes to the
\* outer catch, before the listeners are removed or after.  A non-empty log
\* is written to a new file of ./recordings.
KeyF ==
  /\ inputMode = "normal"
  /\ IF ~isRecording
       THEN UNCHANGED <<recordedActions, isRecording, recordings, lastRead,
                        mouseRecorder>>
       ELSE \E mainOk \in Outcomes, readable \in Injectable :
              IF mainOk
                THEN LET log == mergeFrames(frameBuf, readable) IN
                     /\ log # <<>> => Len(recordings) < MaxFiles
                     /\ recordedActions' = log
                     /\ isRecording' = FALSE
                     /\ lastRead' = readable
                     /\ mouseRecorder' = removeListeners(mouseRecorder, readable)
                     /\ recordings' =
                          IF log = <<>> THEN recordings
                          ELSE Append(recordings,
                                      [shape |-> "wrapped", actions |-> log])
                ELSE /\ isRecording' = FALSE
                     /\ mouseRecorder' = removeListeners(mouseRecorder, readable)
                     /\ UNCHANGED <<recordedActions, recordings, lastRead>>
  /\ UNCHANGED <<cancelPostReplay, receivedNop, skipNopWait, inputMode,
                 inputBuffer, draw, targetDraw, pendingReplayLoops,
                 frameBuf, netCond, cdpRejects, toggle, driverFaulty,
                 pageClosed, frameTree, lastEvent, drawWaits, rp>>

\* recordNetworkAction(kind): the action is pushed into the buffer of the
\* main page, unless the script fails.
recordNetworkAction(kind) ==
  \E ok \in Outcomes, t \in Times :
    /\ LaterThan(frameBuf, t)
    /\ IF ok
         THEN /\ Len(frameBuf[mainFrame]) < MaxBuf
              /\ frameBuf' = [frameBuf EXCEPT
                                ![mainFrame] = Append(@, NetworkAction(kind, t))]
         ELSE /\ t = MaxTime
              /\ UNCHANGED frameBuf

\* 'p' in normal mode.
KeyP ==
  /\ inputMode = "normal"
  /\ IF isRecording THEN recordNetworkAction("enablePacketLoss")
                    ELSE UNCHANGED frameBuf
  /\ ApplyEnable
  /\ UNCHANGED <<progVars, recordings, cdpRejects, driverFaulty, pageClosed,
                 frameTree, mouseRecorder, lastEvent, drawWaits, lastRead, rp>>

\* 'n' in normal mode.
KeyN ==
  /\ inputMode = "normal"
  /\ ApplyDisable
  /\ UNCHANGED <<progVars, recordings, frameBuf, cdpRejects, driverFaulty,
                 pageClosed, frameTree, mouseRecorder, lastEvent, drawWaits,
                 lastRead, rp>>

\* 'r' in normal mode: setupReplay().
KeyR ==
  /\ inputMode = "normal"
  /\ IF Len(recordedActions) = 0
       THEN UNCHANGED <<inputMode, inputBuffer>>
       ELSE /\ inputMode' = "settingReplayLoops"
            /\ inputBuffer' = <<>>
  /\ UNCHANGED <<recordedActions, isRecording, cancelPostReplay, receivedNop,
                 skipNopWait, draw, targetDraw, pendingReplayLoops, pageVars,
                 rp>>

\* 'l' in normal mode: loadRecording().
KeyL ==
  /\ inputMode = "normal"
  /\ IF Len(recordings) = 0
       THEN UNCHANGED <<inputMode, inputBuffer>>
       ELSE /\ inputMode' = "loadingFile"
            /\ inputBuffer' = <<>>
  /\ UNCHANGED <<recordedActions, isRecording, cancelPostReplay, receivedNop,
                 skipNopWait, draw, targetDraw, pendingReplayLoops, pageVars,
                 rp>>

\* Variant of the load that knows the metadata format only.
loadedActions_wrappedOnly(file) ==
  IF file.shape = "wrapped" THEN file.actions ELSE <<>>

\* The Action Log finishLoading leaves for the parsed payload of a file.
loadedActions(file) ==
  IF file.shape = "array" THEN file.actions
  ELSE IF file.shape = "wrapped" THEN file.actions
  ELSE <<>>

\* Variant of finishLoading() that keeps the Action Log in memory when the
\* selected file holds no recording.
finishLoading_keepsLog ==
  /\ inputMode' = "normal"
  /\ inputBuffer' = <<>>
  /\ LET index == parseInt(inputBuffer) - 1 IN
     IF parseInt(inputBuffer) = NaN \/ index < 0 \/ index >= Len(recordings)
       THEN UNCHANGED recordedActions
       ELSE IF recordings[index + 1].shape \in {"array", "wrapped"}
              THEN recordedActions' = loadedActions(recordings[index + 1])
              ELSE UNCHANGED recordedActions
  /\ UNCHANGED <<isRecording, cancelPostReplay, receivedNop, skipNopWait, draw,
                 targetDraw, pendingReplayLoops, pageVars, rp>>

\* Enter in the file prompt: finishLoading().
finishLoading ==
  /\ inputMode' = "normal"
  /\ inputBuffer' = <<>>
  /\ LET index == parseInt(inputBuffer) - 1 IN
     IF parseInt(inputBuffer) = NaN \/ index < 0 \/ index >= Len(recordings)
       THEN UNCHANGED recordedActions
       ELSE recordedActions' = loadedActions(recordings[index + 1])
  /\ UNCHANGED <<isRecording, cancelPostReplay, receivedNop, skipNopWait, draw,
                 targetDraw, pendingReplayLoops, pageVars, rp>>

\* The activation a new call of replay() runs in.
FreeSlots == {r \in Replays : ~Active(rp[r])}

\* Enter in the draw-count prompt: replay(pendingReplayLoops) is called.
confirmTargetDraw ==
  /\ targetDraw' = countOrDefault(inputBuffer)
  /\ inputMode' = "normal"
  /\ inputBuffer' = <<>>
  /\ IF Len(recordedActions) = 0
       THEN UNCHANGED <<cancelPostReplay, draw, rp>>
       ELSE /\ FreeSlots # {}
            /\ startReplay(CHOOSE r \in FreeSlots : \A q \in FreeSlots : r <= q,
                           pendingReplayLoops)
  /\ UNCHANGED <<recordedActions, isRecording, receivedNop, skipNopWait,
                 pendingReplayLoops, pageVars>>

\* Enter in the loop-count prompt.
confirmReplayLoops ==
  /\ pendingReplayLoops' = countOrDefault(inputBuffer)
  /\ inputMode' = "settingTargetDraw"
  /\ inputBuffer' = <<>>
  /\ UNCHANGED <<recordedActions, isRecording, cancelPostReplay, receivedNop,
                 skipNopWait, draw, targetDraw, pageVars, rp>>

\* Return or Enter in a prompt.
KeyEnter ==
  /\ inputMode # "normal"
  /\ IF inputMode = "loadingFile" THEN finishLoading
     ELSE IF inputMode = "settingReplayLoops" THEN confirmReplayLoops
     ELSE confirmTargetDraw

\* 'c' or Escape in a prompt.
KeyEscape ==
  /\ inputMode # "normal"
  /\ inputMode' = "normal"
  /\ inputBuffer' = <<>>
  /\ pendingReplayLoops' =
       IF inputMode = "settingTargetDraw" THEN 0 ELSE pendingReplayLoops
  /\ UNCHANGED <<recordedActions, isRecording, cancelPostReplay, receivedNop,
                 skipNopWait, draw, targetDraw, pageVars, rp>>

\* Backspace in a prompt.
KeyBackspace ==
  /\ inputMode # "normal"
  /\ Len(inputBuffer) > 0
  /\ inputBuffer' = SubSeq(inputBuffer, 1, Len(inputBuffer) - 1)
  /\ UNCHANGED <<recordedActions, isRecording, cancelPostReplay, receivedNop,
                 skipNopWait, inputMode, draw, targetDraw, pendingReplayLoops,
                 pageVars, rp>>

\* A digit key in a prompt.
KeyDigit(d) ==
  /\ inputMode # "normal"
  /\ Len(inputBuffer) < MaxInput
  /\ inputBuffer' = Append(inputBuffer, d)
  /\ UNCHANGED <<recordedActions, isRecording, cancelPostReplay, receivedNop,
                 skipNopWait, inputMode, draw, targetDraw, pendingReplayLoops,
                 pageVars, rp>>

\* The page requests a URL containing 'nop' (page 'request' handler).
RequestNop ==
  /\ receivedNop' = TRUE
  /\ UNCHANGED <<recordedActions, isRecording, cancelPostReplay, skipNopWait,
                 inputMode, inputBuffer, draw, targetDraw, pendingReplayLoops,
                 pageVars, rp>>

\* A tracked request that matches the filter patterns arrives: the handler
\* counts the draw and is suspended at `await this.updateUrlOverlay()`.
RequestDraw ==
  /\ draw < MaxDraws
  /\ draw' = draw + 1
  /\ drawWaits' = drawWaits + 1
  /\ UNCHANGED <<recordedActions, isRecording, cancelPostReplay, receivedNop,
                 skipNopWait, inputMode, inputBuffer, targetDraw,
                 pendingReplayLoops, recordings, frameBuf, netCond, cdpRejects,
                 toggle, driverFaulty, pageClosed, frameTree, mouseRecorder,
                 lastEvent, lastRead, rp>>

\* updateUrlOverlay returns to one of the suspended handlers, which compares
\* this.draw with this.targetDraw and calls disablePacketLoss; or it throws
\* and the handler ends there.
DrawOverlayDone ==
  /\ drawWaits > 0
  /\ drawWaits' = drawWaits - 1
  /\ \E ok \in Outcomes :
       IF ok
         THEN /\ cancelPostReplay' = (cancelPostReplay \/ draw = targetDraw)
              /\ rp' = IF draw = targetDraw THEN NoteCancel ELSE rp
              /\ ApplyDisable
         ELSE UNCHANGED <<cancelPostReplay, netCond, toggle, rp>>
  /\ UNCHANGED <<recordedActions, isRecording, receivedNop, skipNopWait,
                 inputMode, inputBuffer, draw, targetDraw, pendingReplayLoops,
                 recordings, frameBuf, cdpRejects, driverFaulty, pageClosed,
                 frameTree, mouseRecorder, lastEvent, lastRead>>

\* ---------------------------------------------------------- specifications
\* A recording of a press and a release, as stopRecording writes it.
LogA == <<PointerAction("mousedown", 1, 1, FALSE, 0),
          PointerAction("mouseup", 2, 1, FALSE, 1)>>

\* A recording with a fault toggled between two clicks.
LogB == <<PointerAction("click", 1, 1, FALSE, 0),
          NetworkAction("enablePacketLoss", 1),
          PointerAction("click", 2, 1, FALSE, 1)>>

\* A legacy recording of a drag with a stored intermediate move.
LogC == <<PointerAction("mousedown", 1, 1, FALSE, 0),
          PointerAction("mousemove", 4, 1, TRUE, 1),
          PointerAction("mouseup", 9, 1, TRUE, 2)>>

SampleLogs == {LogA, LogB, LogC}

\* The state the constructor leaves, with the page loaded.
Constructed ==
  /\ frameTree = FlatTree
  /\ recordedActions = <<>>
  /\ isRecording = FALSE
  /\ cancelPostReplay = FALSE
  /\ receivedNop = FALSE
  /\ skipNopWait = FALSE
  /\ inputMode = "normal"
  /\ inputBuffer = <<>>
  /\ draw = 0
  /\ targetDraw = 1
  /\ pendingReplayLoops = 0
  /\ recordings = <<>>
  /\ frameBuf = [f \in Frames |-> <<>>]
  /\ netCond = AllNormal
  /\ cdpRejects = {}
  /\ toggle = NoToggle
  /\ driverFaulty = FALSE
  /\ pageClosed = FALSE
  /\ mouseRecorder = [f \in Frames |-> NoRecorder]
  /\ lastEvent = NoEvent
  /\ drawWaits = 0
  /\ lastRead = {}
  /\ rp = [r \in Replays |-> IdleReplay]

\* The operator at the keyboard once a recording is in memory: capture,
\* replay through its two prompts, cancel and skip, while replays run.
Init ==
  /\ frameTree = FlatTree
  /\ recordedActions = LogA
  /\ isRecording = FALSE
  /\ cancelPostReplay = FALSE
  /\ receivedNop = FALSE
  /\ skipNopWait = FALSE
  /\ inputMode = "normal"
  /\ inputBuffer = <<>>
  /\ draw = 0
  /\ targetDraw = 1
  /\ pendingReplayLoops = 0
  /\ recordings = <<[shape |-> "wrapped", actions |-> LogA]>>
  /\ frameBuf = [f \in Frames |-> <<>>]
  /\ netCond = AllNormal
  /\ cdpRejects = {}
  /\ toggle = NoToggle
  /\ driverFaulty = FALSE
  /\ pageClosed = FALSE
  /\ mouseRecorder = [f \in Frames |-> NoRecorder]
  /\ lastEvent = NoEvent
  /\ drawWaits = 0
  /\ lastRead = {}
  /\ rp = [r \in Replays |-> IdleReplay]

Next ==
  \/ KeyS
  \/ KeyF
  \/ KeyR
  \/ KeyC
  \/ KeyX
  \/ KeyEnter
  \/ KeyEscape
  \/ \E r \in Replays : ReplayStep(r)

Spec == Init /\ [][Next]_vars

\* One call of replay(loopCount) on a loaded recording, with the commands
\* the operator has while it runs: cancel, skip the NOP wait, toggle the
\* fault.
InitReplay ==
  /\ frameTree = FlatTree
  /\ recordedActions \in SampleLogs
  /\ isRecording = FALSE
  /\ cancelPostReplay = FALSE
  /\ receivedNop = FALSE
  /\ skipNopWait = FALSE
  /\ inputMode = "normal"
  /\ inputBuffer = <<>>
  /\ draw = 0
  /\ targetDraw = 1
  /\ pendingReplayLoops \in 1 .. MaxDigit
  /\ recordings = <<>>
  /\ frameBuf = [f \in Frames |-> <<>>]
  /\ netCond = AllNormal
  /\ cdpRejects = {}
  /\ toggle = NoToggle
  /\ driverFaulty \in BOOLEAN
  /\ pageClosed = FALSE
  /\ mouseRecorder = [f \in Frames |-> NoRecorder]
  /\ lastEvent = NoEvent
  /\ drawWaits = 0
  /\ lastRead = {}
  /\ rp = [r \in Replays |->
             IF r = 1 THEN [IdleReplay EXCEPT !.pc = "overlay",
                                              !.loopCount = pendingReplayLoops,
                                              !.log0 = recordedActions]
                      ELSE IdleReplay]

NextReplay ==
  \/ KeyC
  \/ KeyX
  \/ KeyP
  \/ KeyN
  \/ RequestNop
  \/ ReplayStep(1)

SpecReplay == InitReplay /\ [][NextReplay]_vars

\* The fault controller driven from the keyboard, on a page whose frames
\* come and go between the calls.
NextFault ==
  \/ KeyP
  \/ KeyN
  \/ \E f \in Frames : FrameChange(f)

SpecFault == Constructed /\ [][NextFault]_vars

\* The buffers one frame can hold when the capture is stopped: pointer
\* actions stamped by the clock of the page, in the order they were pushed.
FrameBuffers ==
  {<<>>} \cup
  UNION {[1 .. n -> {PointerAction("click", 1, 1, FALSE, t) : t \in Times}]
           : n \in 1 .. MaxBuf}

Stamped(s) == \A k \in 1 .. Len(s) - 1 : s[k].timestamp <= s[k + 1].timestamp

\* The buffers whose actions were all captured before the clock reached
\* MaxTime.
EarlyBuffers ==
  {b \in FrameBuffers :
     Stamped(b) /\ \A k \in 1 .. Len(b) : b[k].timestamp < MaxTime}

\* A capture session in progress with any content of the frame buffers, which
\* the operator stops.
InitMerge ==
  /\ frameTree = FlatTree
  /\ recordedActions = <<>>
  /\ isRecording = TRUE
  /\ cancelPostReplay = FALSE
  /\ receivedNop = FALSE
  /\ skipNopWait = FALSE
  /\ inputMode = "normal"
  /\ inputBuffer = <<>>
  /\ draw = 0
  /\ targetDraw = 1
  /\ pendingReplayLoops = 0
  /\ recordings = <<>>
  /\ frameBuf \in [Frames -> EarlyBuffers]
  /\ netCond = AllNormal
  /\ cdpRejects = {}
  /\ toggle = NoToggle
  /\ driverFaulty = TRUE
  /\ pageClosed = FALSE
  /\ mouseRecorder = [f \in Frames |-> FreshRecorder]
  /\ lastEvent = NoEvent
  /\ drawWaits = 0
  /\ lastRead = {}
  /\ rp = [r \in Replays |-> IdleReplay]

NextMerge == KeyF

SpecMerge == InitMerge /\ [][NextMerge]_vars

\* ------------------------------------------------------------- properties
Rp1 == rp[1]

PostPcs == {"postWait", "postReload", "postBlank", "postGoto", "postSettle"}

\* C1 -- Cancellation mid-replay: once cancelPostReplay became true while an
\* action of a repetition was under way (after action i-1 started, before
\* the poll that precedes action i), that replay() starts the synthesis of no
\* further action, in this or a later repetition, and calls
\* postReplaySequence no more.
C1_CancelMidReplayHalts ==
  [][\A r \in Replays :
       rp[r].cancelReq =>
         /\ rp'[r].pc = "act" =>
              /\ rp[r].pc = "act"
              /\ rp'[r].i = rp[r].i
              /\ rp'[r].currentLoop = rp[r].currentLoop
         /\ rp'[r].pc \notin PostPcs
         /\ rp'[r].posts <= rp[r].posts]_vars

\* C2 -- replay(loopCount) on a non-empty log, with the flag never set and
\* no driver call failing, has run exactly loopCount repetitions when it
\* reaches its finally block: every repetition visited every action of the
\* log once in log order, and postReplaySequence was called once per
\* repetition.
C2_RunsLoopCountRepetitions ==
  \A r \in Replays :
    (/\ rp[r].pc = "finally"
     /\ rp[r].log0 # <<>>
     /\ ~rp[r].flagSet
     /\ ~rp[r].failed)
      => /\ rp[r].currentLoop = rp[r].loopCount
         /\ rp[r].fullReps = rp[r].loopCount
         /\ rp[r].posts = rp[r].loopCount

\* C3 -- Single-action failure isolation: when the synthesis of action i
\* throws, replay() does not end with that error and stays in the same
\* repetition; unless the run is cancelled, every later action is visited in
\* order, the next one that drives the browser is being synthesized, and
\* behind the last action the repetition goes on to postReplaySequence.
C3_FailureIsolation ==
  [][(/\ Rp1.pc = "act"
      /\ Rp1'.lastErr = Rp1.i
      /\ Rp1.lastErr # Rp1.i)
       => /\ ~Rp1'.threw
          /\ Rp1'.currentLoop = Rp1.currentLoop
          /\ ~cancelPostReplay =>
               /\ Rp1'.inOrder = Rp1.inOrder
               /\ \/ /\ Rp1'.pc \in {"act", "delay"}
                     /\ Rp1'.i > Rp1.i
                     /\ Rp1'.nseen = Rp1.nseen + (Rp1'.i - Rp1.i)
                     /\ \A j \in (Rp1.i + 1) .. (Rp1'.i - 1) :
                          ~HasSynth(recordedActions[j + 1])
                  \/ /\ Rp1'.pc \in PostPcs
                     /\ Rp1'.nseen = Len(recordedActions)
                     /\ \A j \in (Rp1.i + 1) .. (Len(recordedActions) - 1) :
                          ~HasSynth(recordedActions[j + 1])]_vars

\* A later action is being synthesized after the synthesis of an earlier one
\* of the same repetition threw.
C3_Witness ==
  /\ Rp1.pc = "act"
  /\ Rp1.lastErr # NoIndex
  /\ Rp1.i > Rp1.lastErr
  /\ ~cancelPostReplay

\* The number of occurrences of e in s.
Count(s, e) == Cardinality({k \in 1 .. Len(s) : s[k] = e})

IsPermutation(s, t) ==
  /\ Len(s) = Len(t)
  /\ \A e \in Range(s) \cup Range(t) : Count(s, e) = Count(t, e)

\* An action without the tags stopRecording adds.
Untagged(a) ==
  [a EXCEPT !.hasFrame = FALSE, !.frameIndex = NoFrame,
            !.frameOffset = [x |-> 0, y |-> 0]]

RECURSIVE ReadableConcat(_, _, _)
\* The buffers of the frames f .. NumFrames-1 that were read, one after the
\* other.
ReadableConcat(f, buf, readable) ==
  IF f >= NumFrames THEN <<>>
  ELSE (IF f \in readable THEN buf[f] ELSE <<>>)
         \o ReadableConcat(f + 1, buf, readable)

\* C4 -- After stopRecording merged the frame buffers, recordedActions is
\* sorted by timestamp, non-decreasing, and is a permutation of the
\* concatenation of the buffers of the frames that could be read.
C4_MergeSortedPermutation ==
  (~isRecording /\ lastRead # {})
    => /\ Stamped(recordedActions)
       /\ IsPermutation([k \in 1 .. Len(recordedActions) |->
                           Untagged(recordedActions[k])],
                        ReadableConcat(0, frameBuf, lastRead))

\* A merge that had to reorder: the first action of the log comes from a
\* frame read after the frame of the second, and one frame was unreadable.
C4_Witness ==
  /\ ~isRecording
  /\ lastRead # {}
  /\ lastRead # Frames
  /\ Len(recordedActions) >= 2
  /\ recordedActions[1].frameIndex > recordedActions[2].frameIndex
  /\ recordedActions[1].timestamp < recordedActions[2].timestamp

\* C5 -- Capture and replay are mutually exclusive: in no reachable state is
\* isRecording true while a replay() has started and not yet returned.
C5_CaptureReplayExclusive ==
  ~(isRecording /\ \E r \in Replays : Active(rp[r]))

\* C6 -- Fault round trip: after enablePacketLoss() on a network that was
\* never toggled, immediately followed by disablePacketLoss(), every frame
\* has the condition of the never-toggled network and neither call threw,
\* whichever frames reject the debug channel.
C6_FaultRoundTrip ==
  toggle.phase = 2 => (netCond = AllNormal /\ ~toggle.threw)

\* The round trip was made while a child frame rejected the debug channel
\* and the other frames accepted it.
C6_Witness ==
  /\ toggle.phase = 2
  /\ toggle.rej # {}
  /\ mainFrame \notin toggle.rej
  /\ toggle.rej # Frames \ {mainFrame}

\* The condition a controller call requests.
Requested(op) ==
  IF op = "enable" THEN packetLossConditions ELSE normalConditions

\* C7 -- Per-frame isolation of fault-toggle errors: after a call of
\* enablePacketLoss or disablePacketLoss that failed on exactly one frame,
\* the main frame or a child, every other frame has the requested condition.
C7_FaultToggleIsolation ==
  (toggle.op # "none" /\ Cardinality(toggle.rej) = 1)
    => \A f \in Frames \ toggle.rej : netCond[f] = Requested(toggle.op)

\* C8 -- Every postReplaySequence has applied disablePacketLoss by the time
\* it returns, on every path: wait completed, cancelled during the wait, or
\* a reload or navigation step failed.
C8_PostReplayClearsFault ==
  Rp1.postRet # "none" => "disable" \in Range(Rp1.postTrace)

\* C9 -- In every postReplaySequence whose wait completed without the flag
\* set, the post-replay script is executed exactly once, and before the
\* reload, the navigations and the clearing of the fault.
C9_PostReplayScriptOnce ==
  Rp1.postTrace # <<>>
    => /\ Rp1.postTrace[1] = "script"
       /\ Count(Rp1.postTrace, "script") = 1

\* C10 -- Cancellable post-replay wait: once cancelPostReplay was set
\* during the bounded wait of postReplaySequence, the wait is abandoned at
\* its next poll: no further wait interval is started and that invocation
\* issues no reload and no navigation.
C10_PostWaitCancellable ==
  [][\A r \in Replays :
       (rp[r].postCancelReq /\ rp[r].pc = "postWait")
         => /\ rp'[r].pc \notin PostPcs \ {"postWait"}
            /\ rp'[r].pc = "postWait" => rp'[r].w = rp[r].w]_vars

LoopPcs == {"overlay", "nopWait", "settle", "act", "delay"}

\* C11 -- Loop ordering: while a step of loop k+1 of a replay() is under
\* way, postReplaySequence has been called for each of the loops 0..k and
\* the last call has returned; while postReplaySequence runs for loop k, no
\* step of a later loop has begun.
C11_LoopOrdering ==
  /\ Rp1.pc \in LoopPcs =>
       /\ Rp1.posts = Rp1.currentLoop
       /\ Rp1.currentLoop > 0 => Rp1.postRet # "none"
  /\ Rp1.pc \in PostPcs =>
       /\ Rp1.posts = Rp1.currentLoop + 1
       /\ Rp1.postRet = "none"

\* An action of the second loop is being synthesized after the first
\* postReplaySequence completed.
C11_Witness ==
  /\ Rp1.pc = "act"
  /\ Rp1.currentLoop = 1
  /\ Rp1.posts = 1
  /\ Rp1.postRet = "completed"

\* C13 -- postReplaySequence never propagates an exception to replay():
\* every step taken inside it, failing or not, either stays inside it or
\* returns normally, and replay() goes on with the header of the next
\* repetition (the next loop, or the end when it was the last or the flag is
\* set).
C13_PostReplayNeverThrows ==
  [][(Rp1.pc \in PostPcs /\ Rp1' # Rp1)
       => /\ ~Rp1'.threw
          /\ \/ Rp1'.pc \in PostPcs
             \/ /\ Rp1'.postRet # "none"
                /\ Rp1'.currentLoop = Rp1.currentLoop + 1
                /\ Rp1'.pc = IF /\ Rp1.currentLoop + 1 < Rp1.loopCount
                                /\ ~cancelPostReplay
                               THEN "overlay" ELSE "finally"]_vars

\* The second loop has started after a postReplaySequence that ended in its
\* outer catch.
C13_Witness ==
  /\ Rp1.pc = "overlay"
  /\ Rp1.currentLoop = 1
  /\ Rp1.postRet = "error"

\* One replay of a recording that switches the fault on, on a page whose
\* frames start and stop accepting the debug channel while it runs.
InitPost ==
  /\ frameTree = FlatTree
  /\ recordedActions = LogB
  /\ isRecording = FALSE
  /\ cancelPostReplay = FALSE
  /\ receivedNop = FALSE
  /\ skipNopWait = FALSE
  /\ inputMode = "normal"
  /\ inputBuffer = <<>>
  /\ draw = 0
  /\ targetDraw = 1
  /\ pendingReplayLoops = 1
  /\ recordings = <<>>
  /\ frameBuf = [f \in Frames |-> <<>>]
  /\ netCond = AllNormal
  /\ cdpRejects = {}
  /\ toggle = NoToggle
  /\ driverFaulty = FALSE
  /\ pageClosed = FALSE
  /\ mouseRecorder = [f \in Frames |-> NoRecorder]
  /\ lastEvent = NoEvent
  /\ drawWaits = 0
  /\ lastRead = {}
  /\ rp = [r \in Replays |->
             IF r = 1 THEN [IdleReplay EXCEPT !.pc = "overlay",
                                              !.loopCount = pendingReplayLoops,
                                              !.log0 = recordedActions]
                      ELSE IdleReplay]

NextPost ==
  \/ KeyX
  \/ \E f \in Frames : FrameChange(f)
  \/ ReplayStep(1)

SpecPost == InitPost /\ [][NextPost]_vars

ReloadOrder == <<"reload", "blank", "disable", "goto">>

Replaying(logs, faulty) ==
  /\ frameTree = FlatTree
  /\ recordedActions \in logs
  /\ isRecording = FALSE
  /\ cancelPostReplay = FALSE
  /\ receivedNop = FALSE
  /\ skipNopWait = FALSE
  /\ inputMode = "normal"
  /\ inputBuffer = <<>>
  /\ draw = 0
  /\ targetDraw = 1
  /\ pendingReplayLoops = 1
  /\ recordings = <<>>
  /\ frameBuf = [f \in Frames |-> <<>>]
  /\ netCond = AllNormal
  /\ cdpRejects = {}
  /\ toggle = NoToggle
  /\ driverFaulty \in faulty
  /\ pageClosed = FALSE
  /\ mouseRecorder = [f \in Frames |-> NoRecorder]
  /\ lastEvent = NoEvent
  /\ drawWaits = 0
  /\ lastRead = {}
  /\ rp = [r \in Replays |->
             IF r = 1 THEN [IdleReplay EXCEPT !.pc = "overlay",
                                              !.loopCount = pendingReplayLoops,
                                              !.log0 = recordedActions]
                      ELSE IdleReplay]

\* Positions of a recorded drag, in the coordinates of its frame.
DragPoints == {[x |-> 100, y |-> 100], [x |-> 200, y |-> 100],
               [x |-> 40, y |-> 160]}

\* A recorded drag from d to u in frame f, as the capture stores it.
DragLog(d, u, f) ==
  <<tagAction(PointerAction("mousedown", d.x, d.y, FALSE, 0), f),
    tagAction(PointerAction("mouseup", u.x, u.y, TRUE, 1), f)>>

\* A drag from d to u in frame f as older versions of the capture stored
\* it, with a pointer-move in between.
LegacyDragLog(d, u, f) ==
  <<tagAction(PointerAction("mousedown", d.x, d.y, FALSE, 0), f),
    tagAction(PointerAction("mousemove", u.x, d.y, TRUE, 1), f),
    tagAction(PointerAction("mouseup", u.x, u.y, TRUE, 2), f)>>

DragLogs ==
  {DragLog(d, u, f) : d \in DragPoints, u \in DragPoints, f \in Frames}
    \cup {DragLog(d, u, mainFrame) \o DragLog(u, d, mainFrame) :
            d \in DragPoints, u \in DragPoints}
    \cup {LegacyDragLog(d, u, f) : d \in DragPoints, u \in DragPoints,
                                   f \in Frames}

InitDrag == Replaying({l \in DragLogs : l[1].x # l[2].x \/ l[1].y # l[2].y},
                      BOOLEAN)

NextDrag ==
  \/ KeyX
  \/ ReplayStep(1)

SpecDrag == InitDrag /\ [][NextDrag]_vars

\* The global position of the latest mousedown stored before entry i + 1 of
\* a recording, (0, 0) when there is none.
LastDownBefore(log, i) ==
  LET ks == {k \in 1 .. i : log[k].type = "mousedown"} IN
  IF ks = {} THEN Origin
  ELSE LET k == CHOOSE m \in ks : \A j \in ks : j <= m
       IN [x |-> log[k].x + log[k].frameOffset.x,
           y |-> log[k].y + log[k].frameOffset.y]

\* The inputs of a drag from global position D to global position U:
\* 15 moves at D + k * (U - D) / 15, a move to U, the button release.
ExpectedDrag(D, U) ==
  [k \in 1 .. 17 |->
     IF k <= 15 THEN [kind |-> "move", x |-> 15 * D.x + k * (U.x - D.x),
                                       y |-> 15 * D.y + k * (U.y - D.y)]
     ELSE IF k = 16 THEN [kind |-> "move", x |-> 15 * U.x, y |-> 15 * U.y]
     ELSE [kind |-> "up", x |-> 0, y |-> 0]]

\* C14: the step in which the branch of a mouseup flagged as a drag ends has
\* issued, in this order, fifteen intermediate moves, the k-th at
\* lastDown + k * (up - lastDown) / 15 with lastDown the global position of
\* the most recent replayed mousedown, then one move to the exact global
\* position of the mouseup, then the release of the button: all seventeen
\* inputs when no synthesis of the repetition has failed, and nothing but a
\* prefix of them otherwise.
C14_DragInterpolation ==
  [][(/\ Rp1.pc = "act"
      /\ Rp1.action.type = "mouseup"
      /\ Rp1.action.isDrag
      /\ (Rp1'.pc # "act" \/ Rp1'.i # Rp1.i))
       => LET e == ExpectedDrag(LastDownBefore(recordedActions, Rp1.i),
                     [x |-> Rp1.action.x + Rp1.action.frameOffset.x,
                      y |-> Rp1.action.y + Rp1.action.frameOffset.y])
              n == Len(Rp1'.inputs)
          IN /\ n <= 17
             /\ Rp1'.inputs = SubSeq(e, 1, n)
             /\ ~Rp1'.failed => n = 17]_vars

\* The drag from (100, 100) to (200, 100) of the main frame has been
\* replayed: its first move is at 100 + 100/15, its seventh at 100 + 700/15.
C14_Witness ==
  /\ recordedActions = DragLog([x |-> 100, y |-> 100], [x |-> 200, y |-> 100],
                               mainFrame)
  /\ Len(Rp1.inputs) = 17
  /\ Rp1.inputs[1] = [kind |-> "move", x |-> 1600, y |-> 1500]
  /\ Rp1.inputs[7] = [kind |-> "move", x |-> 2200, y |-> 1500]
  /\ Rp1.inputs[15] = [kind |-> "move", x |-> 3000, y |-> 1500]
  /\ Rp1.inputs[16] = [kind |-> "move", x |-> 3000, y |-> 1500]
  /\ Rp1.inputs[17].kind = "up"

\* ----------------------------------------------------- loading recordings
\* A recording whose file lists a later click before an earlier one.
LogU == <<PointerAction("click", 2, 1, FALSE, 1),
          PointerAction("click", 1, 1, FALSE, 0)>>

\* Payloads of recording files: a bare array, an object with an `actions`
\* array, an object without one, and text that is no JSON.
SampleFiles ==
  {[shape |-> s, actions |-> l] : s \in {"array", "wrapped"},
                                  l \in {<<>>, LogA, LogB, LogU}}
    \cup {[shape |-> s, actions |-> <<>>] : s \in {"object", "unparsable"}}

\* The recordings directory holds MaxFiles + 1 files, and a recording that
\* is in none of them is in memory.
InitLoad ==
  /\ frameTree = FlatTree
  /\ recordedActions = LogC
  /\ isRecording = FALSE
  /\ cancelPostReplay = FALSE
  /\ receivedNop = FALSE
  /\ skipNopWait = FALSE
  /\ inputMode = "normal"
  /\ inputBuffer = <<>>
  /\ draw = 0
  /\ targetDraw = 1
  /\ pendingReplayLoops = 0
  /\ recordings \in [1 .. MaxFiles + 1 -> SampleFiles]
  /\ frameBuf = [f \in Frames |-> <<>>]
  /\ netCond = AllNormal
  /\ cdpRejects = {}
  /\ toggle = NoToggle
  /\ driverFaulty = FALSE
  /\ pageClosed = FALSE
  /\ mouseRecorder = [f \in Frames |-> NoRecorder]
  /\ lastEvent = NoEvent
  /\ drawWaits = 0
  /\ lastRead = {}
  /\ rp = [r \in Replays |-> IdleReplay]

NextLoad ==
  \/ KeyL
  \/ \E d \in 0 .. MaxDigit : KeyDigit(d)
  \/ KeyBackspace
  \/ KeyEnter

SpecLoad == InitLoad /\ [][NextLoad]_vars

\* C15: finishLoading on a file whose payload is the bare array A and on a
\* file whose payload is {metadata, actions: A} leaves recordedActions = A.
C15_LoadFormatsAgree ==
  [][(/\ inputMode = "loadingFile"
      /\ inputMode' = "normal"
      /\ parseInt(inputBuffer) # NaN
      /\ parseInt(inputBuffer) \in 1 .. Len(recordings)
      /\ recordings[parseInt(inputBuffer)].shape \in {"array", "wrapped"})
       => recordedActions' = recordings[parseInt(inputBuffer)].actions]_vars

\* The same actions are on disk in both formats and have been loaded.
C15_Witness ==
  /\ recordings[1] = [shape |-> "array", actions |-> LogB]
  /\ recordings[2] = [shape |-> "wrapped", actions |-> LogB]
  /\ inputMode = "normal"
  /\ recordedActions = LogB

\* ------------------------------------------------- capture at the keyboard
\* The operator starts, restarts and finishes captures and toggles the fault,
\* with a recording in memory, on a page whose scripts may fail.
InitCapture ==
  /\ frameTree = FlatTree
  /\ recordedActions \in {LogA, LogB}
  /\ isRecording = FALSE
  /\ cancelPostReplay = FALSE
  /\ receivedNop = FALSE
  /\ skipNopWait = FALSE
  /\ inputMode = "normal"
  /\ inputBuffer = <<>>
  /\ draw = 0
  /\ targetDraw = 1
  /\ pendingReplayLoops = 0
  /\ recordings = <<>>
  /\ frameBuf = [f \in Frames |-> <<>>]
  /\ netCond = AllNormal
  /\ cdpRejects = {}
  /\ toggle = NoToggle
  /\ driverFaulty \in BOOLEAN
  /\ pageClosed = FALSE
  /\ mouseRecorder = [f \in Frames |-> NoRecorder]
  /\ lastEvent = NoEvent
  /\ drawWaits = 0
  /\ lastRead = {}
  /\ rp = [r \in Replays |-> IdleReplay]

NextCapture ==
  \/ KeyS
  \/ KeyF
  \/ KeyP
  \/ KeyN

SpecCapture == InitCapture /\ [][NextCapture]_vars

\* A capture started and restarted, with toggles of the fault in between.
NextRestart ==
  \/ KeyS
  \/ KeyP

SpecRestart == InitCapture /\ [][NextRestart]_vars

\* C16: a press of 'n' while a capture is in progress, seen as a new call of
\* the controller's disable, appends a disablePacketLoss network action to
\* the buffer of the main page, as 'p' does for enablePacketLoss.
C16_RestoreIsRecorded ==
  [][(/\ isRecording
      /\ inputMode = "normal"
      /\ toggle' # toggle
      /\ toggle'.op = "disable")
       => /\ Len(frameBuf'[mainFrame]) = Len(frameBuf[mainFrame]) + 1
          /\ LET a == frameBuf'[mainFrame][Len(frameBuf'[mainFrame])]
             IN /\ a.type = "networkAction"
                /\ a.networkActionType = "disablePacketLoss"]_vars

\* C20: a step of startRecording - outside a capture, one that leaves the
\* network and the directory alone and either turns the capture on or fails
\* in the outer catch; inside a capture, one that empties a page buffer -
\* leaves recordedActions empty.
C20_RestartDiscardsLog ==
  [][(/\ inputMode = "normal"
      /\ netCond' = netCond
      /\ toggle' = toggle
      /\ recordings' = recordings
      /\ \/ ~isRecording
         \/ /\ isRecording'
            /\ \E f \in Frames : frameBuf[f] # <<>> /\ frameBuf'[f] = <<>>)
       => recordedActions' = <<>>]_vars

\* A capture runs on a page whose scripts can fail, and the recording that
\* was in memory is gone without having been written to disk.
C20_Witness ==
  /\ driverFaulty
  /\ isRecording
  /\ recordedActions = <<>>
  /\ recordings = <<>>

\* ------------------------------------------------------ pacing and toggles
\* A recording with the fault switched on and off between clicks, and a
\* pause of a second and a half before the fourth action.
LogD == <<PointerAction("click", 1, 1, FALSE, 0),
          NetworkAction("enablePacketLoss", 1),
          PointerAction("click", 2, 1, FALSE, 2),
          PointerAction("click", 3, 1, FALSE, 1502),
          NetworkAction("disablePacketLoss", 1503),
          PointerAction("click", 4, 1, FALSE, 1503)>>

InitPace == Replaying({LogD}, BOOLEAN)

NextPace ==
  \/ KeyX
  \/ ReplayStep(1)

SpecPace == InitPace /\ [][NextPace]_vars

\* The controller call of the latest network toggle among the first i
\* entries of a recording.
LastToggleBefore(log, i) ==
  LET ks == {k \in 1 .. i : log[k].type = "networkAction"} IN
  IF ks = {} THEN "none"
  ELSE LET k == CHOOSE m \in ks : \A j \in ks : j <= m
       IN IF log[k].networkActionType = "enablePacketLoss"
            THEN "enable" ELSE "disable"

NetworkAfter(op) ==
  IF op = "enable" THEN [f \in Frames |-> packetLossConditions] ELSE AllNormal

\* C17: while entry i of the log is being synthesized, the controller calls
\* made so far are exactly those of the toggles stored before it, the last
\* one in force on the frames; while replay waits behind entry i, the toggle
\* of entry i, if it is one, has been applied as well.  So the fault is on
\* from the enable to the disable and no pointer action is synthesized with
\* an earlier toggle pending.
C17_TogglesInSequence ==
  /\ Rp1.pc = "act" =>
       /\ toggle.op = LastToggleBefore(recordedActions, Rp1.i)
       /\ netCond = NetworkAfter(toggle.op)
  /\ Rp1.pc = "delay" =>
       /\ toggle.op = LastToggleBefore(recordedActions, Rp1.i + 1)
       /\ netCond = NetworkAfter(toggle.op)

\* The last click is being synthesized after the enable and the disable
\* stored before it have both been applied.
C17_Witness ==
  /\ Rp1.pc = "act"
  /\ Rp1.i = 5
  /\ Rp1.action.type = "click"
  /\ toggle.op = "disable"
  /\ toggle.phase = 2
  /\ netCond = AllNormal

\* C18: the step that ends the handling of entry i, not the last one, whose
\* successor is stamped later, starts the wait of the difference of the two
\* timestamps, whether the synthesis returned or threw.
C18_DelayAfterEveryAction ==
  [][(/\ Rp1.pc = "act"
      /\ (Rp1'.pc # "act" \/ Rp1'.i # Rp1.i)
      /\ Rp1.i < Len(recordedActions) - 1
      /\ recordedActions[Rp1.i + 2].timestamp > Rp1.action.timestamp
      /\ ~cancelPostReplay)
       => /\ Rp1'.pc = "delay"
          /\ Rp1'.delay = recordedActions[Rp1.i + 2].timestamp
                            - Rp1.action.timestamp]_vars

\* C19: the wait between two consecutive actions is the difference of their
\* timestamps capped at one second.
C19_DelayCapped ==
  Rp1.pc = "delay" =>
    LET d == recordedActions[Rp1.i + 2].timestamp
               - recordedActions[Rp1.i + 1].timestamp
    IN Rp1.delay = IF d < 1000 THEN d ELSE 1000

\* C21: finishLoading of a selected file that cannot be parsed, or whose
\* payload is neither an array nor an object with an `actions` member, leaves
\* recordedActions empty, whatever was in memory, and ends the prompt.
C21_MalformedLoadClears ==
  [][(/\ inputMode = "loadingFile"
      /\ inputMode' = "normal"
      /\ parseInt(inputBuffer) # NaN
      /\ parseInt(inputBuffer) \in 1 .. Len(recordings)
      /\ recordings[parseInt(inputBuffer)].shape \in {"object", "unparsable"})
       => recordedActions' = <<>>]_vars

\* Only files without a recording are on disk, and the recording that was in
\* memory is gone.
C21_Witness ==
  /\ recordings[1].shape = "unparsable"
  /\ recordings[2].shape = "object"
  /\ inputMode = "normal"
  /\ recordedActions = <<>>

\* ------------------------------------------------- the page goes away
\* One repetition of a sample recording is replayed; the page can be closed
\* at any moment of it, and the operator can cancel.
InitClosed == Replaying(SampleLogs, {FALSE})

\* The page is closed while replay() runs.
CloseDuringReplay ==
  /\ Active(rp[1])
  /\ PageClose

NextClosed ==
  \/ CloseDuringReplay
  \/ KeyX
  \/ ReplayStep(1)

SpecClosed == InitClosed /\ [][NextClosed]_vars

\* C22: replay() during which the page was closed - in an action, in the
\* inter-action delay or in the post-replay sequence as anywhere else - ends
\* by throwing.
C22_TerminalFailurePropagates ==
  (pageClosed /\ Rp1.pc = "done") => Rp1.threw

\* ------------------------------------------------------- partial capture
\* The actions of a log that stopRecording tagged with frame f.
FromFrame(s, f) == SelectSeq(s, LAMBDA a : a.frameIndex = f)

\* C23: a stopRecording in which the buffers of some frames could not be
\* read still ends the capture, and leaves in recordedActions, sorted by
\* timestamp, all the actions of every frame that was read and no action of
\* a frame that was not.
C23_PartialCapture ==
  [][(isRecording /\ ~isRecording' /\ lastRead' # Frames)
       => /\ Stamped(recordedActions')
          /\ \A f \in Frames :
               LET got == FromFrame(recordedActions', f) IN
               IF f \in lastRead'
                 THEN IsPermutation([k \in 1 .. Len(got) |-> Untagged(got[k])],
                                    frameBuf[f])
                 ELSE got = <<>>
          /\ \A k \in 1 .. Len(recordedActions') :
               recordedActions'[k].frameIndex \in lastRead']_vars

\* A capture was stopped with an unreadable frame that held actions; the
\* actions of a frame read after it are in the log.
C23_Witness ==
  /\ ~isRecording
  /\ \E f \in Frames \ lastRead :
       /\ frameBuf[f] # <<>>
       /\ \E g \in lastRead : g > f /\ FromFrame(recordedActions, g) # <<>>

\* ------------------------------------------------- disabling the fault
\* C24: a call of disablePacketLoss never throws; with every debug channel
\* accepting, it leaves every frame unrestricted, whether or not the fault
\* was active; and a call that follows another one at once, the same
\* channels accepting, changes no frame's conditions.
C24_DisableIdempotent ==
  [][(toggle' # toggle /\ toggle'.op = "disable")
       => /\ ~toggle'.threw
          /\ cdpRejects = {} => netCond' = AllNormal
          /\ (toggle.op = "disable" /\ toggle.rej = cdpRejects)
               => netCond' = netCond]_vars

\* disablePacketLoss has returned from a call made on a network without the
\* fault or right after another call of it, and every frame is unrestricted.
C24_Witness ==
  /\ toggle.op = "disable"
  /\ toggle.phase = 0
  /\ ~toggle.threw
  /\ netCond = AllNormal

\* ------------------------------------------------------ frame offsets
\* The trees page.frames() can list: a frame's parent precedes it.
FrameTrees ==
  {t \in [Frames -> Frames \cup {NoFrame}] :
     /\ t[mainFrame] = NoFrame
     /\ \A f \in Frames \ {mainFrame} : t[f] \in Frames /\ t[f] < f}

\* A capture session in progress on a page with any frame tree and any
\* content of the frame buffers, which the operator stops.
InitTree ==
  /\ frameTree \in FrameTrees
  /\ recordedActions = <<>>
  /\ isRecording = TRUE
  /\ cancelPostReplay = FALSE
  /\ receivedNop = FALSE
  /\ skipNopWait = FALSE
  /\ inputMode = "normal"
  /\ inputBuffer = <<>>
  /\ draw = 0
  /\ targetDraw = 1
  /\ pendingReplayLoops = 0
  /\ recordings = <<>>
  /\ frameBuf \in [Frames -> {b \in FrameBuffers : Stamped(b)}]
  /\ netCond = AllNormal
  /\ cdpRejects = {}
  /\ toggle = NoToggle
  /\ driverFaulty = FALSE
  /\ pageClosed = FALSE
  /\ mouseRecorder = [f \in Frames |-> FreshRecorder]
  /\ lastEvent = NoEvent
  /\ drawWaits = 0
  /\ lastRead = {}
  /\ rp = [r \in Replays |-> IdleReplay]

NextTree == KeyF

SpecTree == InitTree /\ [][NextTree]_vars

RECURSIVE ViewportPosition(_)
\* The top-left corner of frame f in the top-level viewport: the rectangles
\* of the frame elements on the path from the main document down to f.
ViewportPosition(f) ==
  IF f = mainFrame THEN [x |-> 0, y |-> 0]
  ELSE [x |-> ViewportPosition(frameTree[f]).x + iframeRect(f).x,
        y |-> ViewportPosition(frameTree[f]).y + iframeRect(f).y]

\* C25: after stopRecording every action carries the ordinal of the frame
\* that captured it and, as frameOffset, the position of that frame in the
\* top-level viewport, {0, 0} for the main frame, whatever the frame tree.
C25_FrameOffsetTagging ==
  (~isRecording /\ lastRead # {})
    => \A k \in 1 .. Len(recordedActions) :
         LET a == recordedActions[k] IN
         /\ a.frameIndex \in lastRead
         /\ Untagged(a) \in Range(frameBuf[a.frameIndex])
         /\ a.frameOffset = ViewportPosition(a.frameIndex)

\* ---------------------------------------------------- global coordinates
PointerKinds == {"mousedown", "mouseup", "click", "mousemove"}

\* C26: every pointer-down, pointer-up, click and pointer-move of the log
\* that a repetition comes to is handed to the driver - the step that passes
\* it stops at its synthesis - and the position the driver is given for it
\* is (frameOffset.x + x, frameOffset.y + y).
C26_GlobalCoordinates ==
  [][/\ \A k \in 1 .. Len(recordedActions) :
          (/\ recordedActions[k].type \in PointerKinds
           /\ Rp1.nseen < k
           /\ k <= Rp1'.nseen)
            => /\ Rp1'.nseen = k
               /\ Rp1'.pc = "act"
               /\ Rp1'.action = recordedActions[k]
     /\ (/\ Rp1.pc = "act"
         /\ Rp1.action.type \in PointerKinds
         /\ (Rp1'.pc # "act" \/ Rp1'.i # Rp1.i)
         /\ ~Rp1'.failed)
          => \E n \in 1 .. Len(Rp1'.inputs) :
               /\ Rp1'.inputs[n].kind \in {"move", "click"}
               /\ Rp1'.inputs[n].x
                    = 15 * (Rp1.action.frameOffset.x + Rp1.action.x)
               /\ Rp1'.inputs[n].y
                    = 15 * (Rp1.action.frameOffset.y + Rp1.action.y)]_vars

\* ------------------------------------------------------ pointer capture
\* Client positions of the operator's pointer.
CapturePoints == {[x |-> 10, y |-> 10], [x |-> 16, y |-> 10]}

EventKinds == {"mousedown", "mouseup", "click", "mousemove"}

\* A page whose first iframe holds every other frame.
NestedTree ==
  [f \in Frames |-> IF f = mainFrame THEN NoFrame
                    ELSE IF f = 1 THEN mainFrame ELSE 1]

\* The tool has started on a page with nested frames; the operator starts a
\* capture and uses the pointer on the page.
InitListen ==
  /\ frameTree = NestedTree
  /\ recordedActions = <<>>
  /\ isRecording = FALSE
  /\ cancelPostReplay = FALSE
  /\ receivedNop = FALSE
  /\ skipNopWait = FALSE
  /\ inputMode = "normal"
  /\ inputBuffer = <<>>
  /\ draw = 0
  /\ targetDraw = 1
  /\ pendingReplayLoops = 0
  /\ recordings = <<>>
  /\ frameBuf = [f \in Frames |-> <<>>]
  /\ netCond = AllNormal
  /\ cdpRejects = {}
  /\ toggle = NoToggle
  /\ driverFaulty = FALSE
  /\ pageClosed = FALSE
  /\ mouseRecorder = [f \in Frames |-> NoRecorder]
  /\ lastEvent = NoEvent
  /\ drawWaits = 0
  /\ lastRead = {}
  /\ rp = [r \in Replays |-> IdleReplay]

NextListen ==
  \/ KeyS
  \/ \E kind \in EventKinds, g \in Frames, p \in CapturePoints :
       PointerEvent(kind, g, p)

SpecListen == InitListen /\ [][NextListen]_vars

\* ------------------------------------------------------ pointer capture
\* C27: a pointer event adds at most one action to the frame buffers, and it
\* adds it to the buffer of the frame whose document owns the target, also
\* when the listeners of enclosing frames see the event: every step in
\* which a buffer grows appends one action of the event's kind to the
\* owner's buffer and leaves every other buffer alone.
C27_SingleAttribution ==
  [][(\E f \in Frames : Len(frameBuf'[f]) > Len(frameBuf[f])) =>
       LET g == lastEvent'.owner
       IN /\ g \in Frames
          /\ \A f \in Frames \ {g} : frameBuf'[f] = frameBuf[f]
          /\ Len(frameBuf'[g]) = Len(frameBuf[g]) + 1
          /\ SubSeq(frameBuf'[g], 1, Len(frameBuf[g])) = frameBuf[g]
          /\ frameBuf'[g][Len(frameBuf'[g])].type = lastEvent'.kind]_vars

\* A press in the innermost frame, while the enclosing frames listen, is in
\* the buffer of the innermost frame only.
C27_Witness ==
  \E g \in Frames :
    /\ Ancestors(g) = {mainFrame, 1}
    /\ lastEvent.kind = "mousedown"
    /\ lastEvent.owner = g
    /\ \A f \in Ancestors(g) : mouseRecorder[f].listening /\ frameBuf[f] = <<>>
    /\ Len(frameBuf[g]) = 1
    /\ frameBuf[g][1].type = "mousedown"

\* C28: capture records pointer moves while a button is held in the frame:
\* a mousemove in a listening frame whose recorder has isMouseDown set
\* appends a mousemove action to that frame's buffer, and a mousemove in a
\* frame without a press leaves the buffers as they are.
C28_MoveWhileDown ==
  [][(lastEvent'.kind = "mousemove" /\ lastEvent' # lastEvent) =>
       LET g == lastEvent'.owner
       IN IF mouseRecorder[g].listening /\ mouseRecorder[g].isMouseDown
            THEN /\ Len(frameBuf'[g]) = Len(frameBuf[g]) + 1
                 /\ frameBuf'[g][Len(frameBuf'[g])].type = "mousemove"
            ELSE frameBuf' = frameBuf]_vars

\* ------------------------------------------------- cancellation in flight
\* A replay of a recorded press or drag in the main frame, in which the
\* operator may press 'x' between any two driver calls of a pointer branch.
InitCancel ==
  Replaying({l \in DragLogs : l[1].frameIndex = mainFrame /\ l[1].x # l[2].x},
            BOOLEAN)

NextCancel ==
  \/ KeyX
  \/ ActStep(1)
  \/ ReplayStep(1)

SpecCancel == InitCancel /\ [][NextCancel]_vars

\* C29: cancelPostReplay is read at the head of the loop over the actions
\* only, so a pointer branch that is under way when the flag is set is not
\* cut short: the step in which such a branch ends has issued the inputs of
\* the action in order, all of them (for a drag the fifteen moves, the exact
\* move and the release) unless a driver call failed, and no further action
\* is started.
C29_CancelIsCooperative ==
  [][(/\ Rp1.pc = "act"
      /\ cancelPostReplay
      /\ Rp1.action.type \in PointerKinds
      /\ (Rp1'.pc # "act" \/ Rp1'.i # Rp1.i))
       => LET e == synthesize(Rp1.action, Rp1.lastMouseDown)
              n == Len(Rp1'.inputs)
          IN /\ n <= Len(e)
             /\ Rp1'.inputs = SubSeq(e, 1, n)
             /\ ~Rp1'.failed => n = Len(e)
             /\ Rp1'.pc \in {"delay", "finally"}]_vars

\* 'x' was pressed after the seventh interpolation move of a drag: the
\* eighth move was the first issued with the flag set, and all seventeen
\* inputs of the drag are out.
C29_Witness ==
  /\ cancelPostReplay
  /\ Rp1.pc \in {"delay", "finally", "done"}
  /\ Rp1.cancelAt = 8
  /\ ~Rp1.failed
  /\ Len(Rp1.inputs) = steps + 2
  /\ Rp1.inputs[steps + 2].kind = "up"

ClassifyPoints ==
  {[x |-> 10, y |-> 10], [x |-> 15, y |-> 10], [x |-> 10, y |-> 16]}

\* A capture in which the operator presses, releases and clicks at these
\* positions.
NextClassify ==
  \/ KeyS
  \/ \E kind \in {"mousedown", "mouseup", "click"}, g \in Frames,
        p \in ClassifyPoints : PointerEvent(kind, g, p)

SpecClassify == InitListen /\ [][NextClassify]_vars

\* The index of the latest mousedown before entry k of a buffer, 0 if none.
DownBefore(buf, k) ==
  LET ds == {j \in 1 .. k - 1 : buf[j].type = "mousedown"}
  IN IF ds = {} THEN 0 ELSE CHOOSE j \in ds : \A i \in ds : i <= j

\* C31: in every frame buffer a mouseup carries isDrag = TRUE exactly when it
\* is more than five pixels away, horizontally or vertically, from the
\* latest mousedown recorded before it in the same buffer; a mousedown and a
\* click carry isDrag = FALSE.
C31_IsDragClassification ==
  \A f \in Frames : \A k \in 1 .. Len(frameBuf[f]) :
    LET a == frameBuf[f][k]
        d == DownBefore(frameBuf[f], k)
    IN /\ a.type \in {"mousedown", "click"} => ~a.isDrag
       /\ a.type = "mouseup" =>
            /\ d > 0
            /\ a.isDrag <=> \/ Abs(a.x - frameBuf[f][d].x) > 5
                            \/ Abs(a.y - frameBuf[f][d].y) > 5

\* A release five pixels from its press is no drag, and one six pixels away
\* is, in the same frame.
C31_Witness ==
  \E f \in Frames :
    /\ Len(frameBuf[f]) = 2
    /\ frameBuf[f][1].type = "mousedown"
    /\ frameBuf[f][2].type = "mouseup"
    /\ Abs(frameBuf[f][2].x - frameBuf[f][1].x) = 5
    /\ frameBuf[f][2].y = frameBuf[f][1].y
    /\ ~frameBuf[f][2].isDrag

\* ------------------------------------------------------ legacy drag moves
\* C32: a stored mousemove with isDrag is never handed to the driver - no
\* replay stops at its synthesis - and the drag it belongs to is reproduced
\* by the mouseup behind it alone: fifteen moves interpolated from the
\* position of the mousedown, the exact move and the release.
C32_LegacyMovesSkipped ==
  [][/\ Rp1'.pc = "act"
          => ~(Rp1'.action.type = "mousemove" /\ Rp1'.action.isDrag)
     /\ (/\ Rp1.pc = "act"
         /\ Rp1.action.type = "mouseup"
         /\ Rp1.action.isDrag
         /\ Rp1.i >= 1
         /\ recordedActions[Rp1.i].type = "mousemove"
         /\ recordedActions[Rp1.i].isDrag
         /\ (Rp1'.pc # "act" \/ Rp1'.i # Rp1.i)
         /\ ~Rp1'.failed)
          => Rp1'.inputs
               = ExpectedDrag(LastDownBefore(recordedActions, Rp1.i),
                              globalPos(Rp1.action))]_vars

\* The legacy drag from (100, 100) over (40, 100) to (40, 160) has been
\* replayed: all three entries were visited and the first input of the
\* mouseup is a fifteenth of the way from the press to the release.
C32_Witness ==
  /\ recordedActions = LegacyDragLog([x |-> 100, y |-> 100],
                                     [x |-> 40, y |-> 160], mainFrame)
  /\ Rp1.nseen = 3
  /\ ~Rp1.failed
  /\ Len(Rp1.inputs) = steps + 2
  /\ Rp1.inputs[1] = [kind |-> "move", x |-> 1440, y |-> 1560]

\* ------------------------------------------------------ replays under way
\* C33: at most one activation of replay() is under way at any time.
C33_SingleReplay == Cardinality({r \in Replays : Active(rp[r])}) <= 1

\* C34: while an activation of replay() stays under way, a cancelPostReplay
\* that is set is not reset.
C34_NoLostCancellation ==
  [][(/\ cancelPostReplay
      /\ \E r \in Replays : Active(rp[r]) /\ Active(rp'[r]))
       => cancelPostReplay']_vars

\* ------------------------------------------------------- draw detection
\* A replay of a short recording during which the page sends tracked
\* requests that match the filter patterns.
InitDraw == Replaying({LogA}, BOOLEAN)

NextDraw ==
  \/ RequestDraw
  \/ DrawOverlayDone
  \/ ReplayStep(1)

SpecDraw == InitDraw /\ [][NextDraw]_vars

\* C35: once the matching requests counted since the start of the replay
\* have reached targetDraw and their handlers have run to the end,
\* cancelPostReplay is set.
C35_DrawCancels ==
  (draw >= targetDraw /\ drawWaits = 0) => cancelPostReplay

\* ------------------------------------------------------- button balance
\* C36: when replay() has returned, the synthetic mouse button is not held:
\* every page.mouse.down() it issued was followed by a page.mouse.up().
C36_ButtonBalance == Rp1.pc = "done" => ~Rp1.held

\* ------------------------------------------------------ press-count fidelity
\* Captures that the operator starts between two gestures and stops, and
\* the presses, releases and clicks of the pointer while one runs.
NextFidelity ==
  \/ ~isRecording /\ lastEvent.kind \in {"none", "click"} /\ KeyS
  \/ KeyF
  \/ \E kind \in {"mousedown", "mouseup", "click"}, g \in Frames,
        p \in CapturePoints : isRecording /\ PointerEvent(kind, g, p)

SpecFidelity == InitListen /\ [][NextFidelity]_vars

RECURSIVE SynthesizedPresses(_, _)
\* The presses of the button one repetition of replay synthesizes for the
\* first n entries of a log: page.mouse.down() and page.mouse.click() calls.
SynthesizedPresses(log, n) ==
  IF n = 0 THEN 0
  ELSE LET ins == synthesize(log[n], LastDownBefore(log, n - 1))
       IN SynthesizedPresses(log, n - 1)
            + Cardinality({j \in 1 .. Len(ins) : ins[j].kind \in {"down", "click"}})

\* C37: the log a capture leaves makes one repetition of replay press the
\* button as many times as the operator pressed it during the capture.
C37_PressCountFidelity ==
  (~isRecording /\ lastRead = Frames)
    => SynthesizedPresses(recordedActions, Len(recordedActions))
         = lastEvent.presses

\* ------------------------------------------------ well-formed frame buffers
\* The index of the latest mousedown or mouseup among the first n entries of
\* a buffer, 0 if there is none.
LastPress(buf, n) ==
  LET ks == {j \in 1 .. n : buf[j].type \in {"mousedown", "mouseup"}}
  IN IF ks = {} THEN 0 ELSE CHOOSE j \in ks : \A i \in ks : i <= j

\* C38: in the buffer of every frame a mouseup comes behind a mousedown with
\* no other mouseup in between, a click does not come between a mousedown
\* and its mouseup, and the frame's isMouseDown flag is set exactly when the
\* latest mousedown or mouseup of its buffer is a mousedown.
C38_BufferWellFormed ==
  \A f \in Frames :
    LET b == frameBuf[f]
        last == LastPress(b, Len(b))
    IN /\ \A k \in 1 .. Len(b) :
            LET p == LastPress(b, k - 1) IN
            /\ b[k].type = "mouseup" => p > 0 /\ b[p].type = "mousedown"
            /\ b[k].type = "click" => p = 0 \/ b[p].type = "mouseup"
       /\ mouseRecorder[f].isMouseDown
            <=> (last > 0 /\ b[last].type = "mousedown")

\* A press in frame f was released over another frame, so that f still has
\* isMouseDown set, and frame g has then recorded a press and its release.
C38_Witness ==
  \E f \in Frames, g \in Frames :
    /\ f # g
    /\ Len(frameBuf[f]) = 1
    /\ frameBuf[f][1].type = "mousedown"
    /\ mouseRecorder[f].isMouseDown
    /\ Len(frameBuf[g]) = 2
    /\ frameBuf[g][1].type = "mousedown"
    /\ frameBuf[g][2].type = "mouseup"
    /\ ~mouseRecorder[g].isMouseDown
    /\ ~lastEvent.held

\* ------------------------------------------------- the replay prompts
\* The operator at the two prompts of 'r', with a recording in memory or
\* none: digits, backspace, Enter, and 'c' or Escape.  The replays that
\* start stay at their first await.
InitPrompt ==
  /\ frameTree = FlatTree
  /\ recordedActions \in SampleLogs \cup {<<>>}
  /\ isRecording = FALSE
  /\ cancelPostReplay = FALSE
  /\ receivedNop = FALSE
  /\ skipNopWait = FALSE
  /\ inputMode = "normal"
  /\ inputBuffer = <<>>
  /\ draw = 0
  /\ targetDraw = 1
  /\ pendingReplayLoops = 0
  /\ recordings = <<>>
  /\ frameBuf = [f \in Frames |-> <<>>]
  /\ netCond = AllNormal
  /\ cdpRejects = {}
  /\ toggle = NoToggle
  /\ driverFaulty = FALSE
  /\ pageClosed = FALSE
  /\ mouseRecorder = [f \in Frames |-> NoRecorder]
  /\ lastEvent = NoEvent
  /\ drawWaits = 0
  /\ lastRead = {}
  /\ rp = [r \in Replays |-> IdleReplay]

\* The digit keys the operator uses at the prompts.
PromptDigits == {0, 2}

NextPrompt ==
  \/ KeyR
  \/ \E d \in PromptDigits : KeyDigit(d)
  \/ KeyBackspace
  \/ KeyEnter
  \/ KeyEscape

SpecPrompt == InitPrompt /\ [][NextPrompt]_vars

\* Some call of replay() begins in this step.
ReplayStarts == \E r \in Replays : ~Active(rp[r]) /\ Active(rp'[r])

\* What the step that begins a replay is: Enter in the draw-count prompt,
\* with counts of at least 1.
StartsFromPrompt ==
  /\ inputMode = "settingTargetDraw"
  /\ inputMode' = "normal"
  /\ pendingReplayLoops >= 1
  /\ targetDraw' >= 1
  /\ \A r \in Replays :
       (Active(rp'[r]) /\ ~Active(rp[r]))
         => rp'[r].loopCount = pendingReplayLoops

\* C39: a replay begins only with Enter in the draw-count prompt, and then
\* with a loop count and a target draw of at least 1 whatever was typed in
\* the two prompts; every running replay has such a loop count and target
\* draw; 'c' or Escape in a prompt starts no replay and leaves the prompt
\* for normal mode.
C39_PositiveCounts ==
  /\ [](\A r \in Replays :
          Active(rp[r]) => (rp[r].loopCount >= 1 /\ targetDraw >= 1))
  /\ [][(ReplayStarts => StartsFromPrompt)
        /\ (KeyEscape => (~ReplayStarts /\ rp' = rp /\ inputMode' = "normal"))
       ]_vars

\* A replay was started with a zero typed for the loop count and runs with
\* the count 1; the operator has then asked for two repetitions and typed a
\* zero in the draw-count prompt.
C39_Witness ==
  /\ Active(rp[1])
  /\ rp[1].loopCount = 1
  /\ targetDraw = 1
  /\ inputMode = "settingTargetDraw"
  /\ pendingReplayLoops = 2
  /\ inputBuffer = <<0>>

\* ------------------------------------------------------- termination
\* The loop counts of the replays whose termination is checked.
TermLoops == {1, 2}

\* replay(loopCount) has shown its overlay for one of two recordings, with
\* a driver that can fail or not.
InitTerm ==
  /\ frameTree = FlatTree
  /\ recordedActions \in {LogA, LogD}
  /\ isRecording = FALSE
  /\ cancelPostReplay = FALSE
  /\ receivedNop = FALSE
  /\ skipNopWait = FALSE
  /\ inputMode = "normal"
  /\ inputBuffer = <<>>
  /\ draw = 0
  /\ targetDraw = 1
  /\ pendingReplayLoops \in TermLoops
  /\ recordings = <<>>
  /\ frameBuf = [f \in Frames |-> <<>>]
  /\ netCond = AllNormal
  /\ cdpRejects = {}
  /\ toggle = NoToggle
  /\ driverFaulty \in BOOLEAN
  /\ pageClosed = FALSE
  /\ mouseRecorder = [f \in Frames |-> NoRecorder]
  /\ lastEvent = NoEvent
  /\ drawWaits = 0
  /\ lastRead = {}
  /\ rp = [r \in Replays |->
             IF r = 1 THEN [IdleReplay EXCEPT !.pc = "overlay",
                                              !.loopCount = pendingReplayLoops,
                                              !.log0 = recordedActions]
                      ELSE IdleReplay]

\* The replay runs; the operator may cancel it or skip the NOP wait and the
\* page may request the NOP, at any time or never.
NextTerm ==
  \/ ReplayStep(1)
  \/ KeyX
  \/ KeyC
  \/ RequestNop

\* Every driver call and every timer of the replay completes, by returning
\* or by throwing; nothing is assumed of the operator or the page.
SpecTerm == InitTerm /\ [][NextTerm]_vars /\ WF_vars(ReplayStep(1))

====
